---------------------------- MODULE Spec2Model ----------------------------
(***************************************************************************)
(* Model of the HP3457A driver class (src/Keysight3457A/Keysight3457A.py). *)
(*                                                                         *)
(* The session object (is_connected, inst, rm), the VISA transport it      *)
(* talks to (resource managers and channels that are open, transport       *)
(* failures), and the multimeter at the other end (trigger mode, NPLC,     *)
(* measurement function, lines waiting to be read) are the state.  Every   *)
(* method of the class is an operator from a "world" record to the world   *)
(* after the call, the exception raised and the value returned; every      *)
(* action applies one method to the current state.                         *)
(*                                                                         *)
(* Python strings are sequences of one-character strings, so that          *)
(* str.upper, str.strip and f-string formatting are computed, not assumed. *)
(***************************************************************************)
EXTENDS Integers, Sequences, FiniteSets, TLC

VARIABLES
    is_connected,   \* self.is_connected
    inst,           \* self.inst: None or the handle of a channel
    rm,             \* self.rm: None or the handle of a resource manager
    visa,           \* the transport: handles handed out, which are open
    dev,            \* the multimeter
    last,           \* the most recent call: name, exception, value, channel log
    run,            \* the script being run, if one is: the calls made, the
                    \* exception that ended it, the whole channel log
    pc              \* the statement of the script that is next

vars == <<is_connected, inst, rm, visa, dev, last, run, pc>>

-----------------------------------------------------------------------------
(* Bounds of the model *)

\* channels that can be open at a time: a connect opens one more
MaxHandles == 2

\* lines that may be left waiting to be read when a step ends
MaxPending == 1

-----------------------------------------------------------------------------
(* Python values.  A str is a sequence of characters.  A character is the   *)
(* string of length one that holds it when it is printable ASCII other than *)
(* the grave accent, or one of \t, \n, \f, \r; every other character is     *)
(* named by its code point, as in "U+000B", "U+0060", "U+00DF", "U+0131".    *)

None == [t |-> "none"]
PyStr(s) == [t |-> "str", v |-> s]
PyInt(n) == [t |-> "int", v |-> n]
\* an argument the caller left out
Omitted == [t |-> "omitted"]

Digits == <<"0", "1", "2", "3", "4", "5", "6", "7", "8", "9">>
LowerLetters == <<"a","b","c","d","e","f","g","h","i","j","k","l","m",
                  "n","o","p","q","r","s","t","u","v","w","x","y","z">>
UpperLetters == <<"A","B","C","D","E","F","G","H","I","J","K","L","M",
                  "N","O","P","Q","R","S","T","U","V","W","X","Y","Z">>

\* the characters str.isspace() holds of: what str.strip() removes
Whitespace ==
    {"\t", "\n", "U+000B", "\f", "\r", "U+001C", "U+001D", "U+001E",
     "U+001F", " ", "U+0085", "U+00A0", "U+1680", "U+2000", "U+2001",
     "U+2002", "U+2003", "U+2004", "U+2005", "U+2006", "U+2007", "U+2008",
     "U+2009", "U+200A", "U+2028", "U+2029", "U+202F", "U+205F", "U+3000"}

\* the characters outside ASCII whose upper case is one other character
UpperSingle ==
    {<<"U+00B5", "U+039C">>, <<"U+00E0", "U+00C0">>, <<"U+00E1", "U+00C1">>,
     <<"U+00E2", "U+00C2">>, <<"U+00E3", "U+00C3">>, <<"U+00E4", "U+00C4">>,
     <<"U+00E5", "U+00C5">>, <<"U+00E6", "U+00C6">>, <<"U+00E7", "U+00C7">>,
     <<"U+00E8", "U+00C8">>, <<"U+00E9", "U+00C9">>, <<"U+00EA", "U+00CA">>,
     <<"U+00EB", "U+00CB">>, <<"U+00EC", "U+00CC">>, <<"U+00ED", "U+00CD">>,
     <<"U+00EE", "U+00CE">>, <<"U+00EF", "U+00CF">>, <<"U+00F0", "U+00D0">>,
     <<"U+00F1", "U+00D1">>, <<"U+00F2", "U+00D2">>, <<"U+00F3", "U+00D3">>,
     <<"U+00F4", "U+00D4">>, <<"U+00F5", "U+00D5">>, <<"U+00F6", "U+00D6">>,
     <<"U+00F8", "U+00D8">>, <<"U+00F9", "U+00D9">>, <<"U+00FA", "U+00DA">>,
     <<"U+00FB", "U+00DB">>, <<"U+00FC", "U+00DC">>, <<"U+00FD", "U+00DD">>,
     <<"U+00FE", "U+00DE">>, <<"U+00FF", "U+0178">>, <<"U+0101", "U+0100">>,
     <<"U+0103", "U+0102">>, <<"U+0105", "U+0104">>, <<"U+0107", "U+0106">>,
     <<"U+0109", "U+0108">>, <<"U+010B", "U+010A">>, <<"U+010D", "U+010C">>,
     <<"U+010F", "U+010E">>, <<"U+0111", "U+0110">>, <<"U+0113", "U+0112">>,
     <<"U+0115", "U+0114">>, <<"U+0117", "U+0116">>, <<"U+0119", "U+0118">>,
     <<"U+011B", "U+011A">>, <<"U+011D", "U+011C">>, <<"U+011F", "U+011E">>,
     <<"U+0121", "U+0120">>, <<"U+0123", "U+0122">>, <<"U+0125", "U+0124">>,
     <<"U+0127", "U+0126">>, <<"U+0129", "U+0128">>, <<"U+012B", "U+012A">>,
     <<"U+012D", "U+012C">>, <<"U+012F", "U+012E">>, <<"U+0131", "I">>,
     <<"U+0133", "U+0132">>, <<"U+0135", "U+0134">>, <<"U+0137", "U+0136">>,
     <<"U+013A", "U+0139">>, <<"U+013C", "U+013B">>, <<"U+013E", "U+013D">>,
     <<"U+0140", "U+013F">>, <<"U+0142", "U+0141">>, <<"U+0144", "U+0143">>,
     <<"U+0146", "U+0145">>, <<"U+0148", "U+0147">>, <<"U+014B", "U+014A">>,
     <<"U+014D", "U+014C">>, <<"U+014F", "U+014E">>, <<"U+0151", "U+0150">>,
     <<"U+0153", "U+0152">>, <<"U+0155", "U+0154">>, <<"U+0157", "U+0156">>,
     <<"U+0159", "U+0158">>, <<"U+015B", "U+015A">>, <<"U+015D", "U+015C">>,
     <<"U+015F", "U+015E">>, <<"U+0161", "U+0160">>, <<"U+0163", "U+0162">>,
     <<"U+0165", "U+0164">>, <<"U+0167", "U+0166">>, <<"U+0169", "U+0168">>,
     <<"U+016B", "U+016A">>, <<"U+016D", "U+016C">>, <<"U+016F", "U+016E">>,
     <<"U+0171", "U+0170">>, <<"U+0173", "U+0172">>, <<"U+0175", "U+0174">>,
     <<"U+0177", "U+0176">>, <<"U+017A", "U+0179">>, <<"U+017C", "U+017B">>,
     <<"U+017E", "U+017D">>, <<"U+017F", "S">>, <<"U+0180", "U+0243">>,
     <<"U+0183", "U+0182">>, <<"U+0185", "U+0184">>, <<"U+0188", "U+0187">>,
     <<"U+018C", "U+018B">>, <<"U+0192", "U+0191">>, <<"U+0195", "U+01F6">>,
     <<"U+0199", "U+0198">>, <<"U+019A", "U+023D">>, <<"U+019E", "U+0220">>,
     <<"U+01A1", "U+01A0">>, <<"U+01A3", "U+01A2">>, <<"U+01A5", "U+01A4">>,
     <<"U+01A8", "U+01A7">>, <<"U+01AD", "U+01AC">>, <<"U+01B0", "U+01AF">>,
     <<"U+01B4", "U+01B3">>, <<"U+01B6", "U+01B5">>, <<"U+01B9", "U+01B8">>,
     <<"U+01BD", "U+01BC">>, <<"U+01BF", "U+01F7">>, <<"U+01C5", "U+01C4">>,
     <<"U+01C6", "U+01C4">>, <<"U+01C8", "U+01C7">>, <<"U+01C9", "U+01C7">>,
     <<"U+01CB", "U+01CA">>, <<"U+01CC", "U+01CA">>, <<"U+01CE", "U+01CD">>,
     <<"U+01D0", "U+01CF">>, <<"U+01D2", "U+01D1">>, <<"U+01D4", "U+01D3">>,
     <<"U+01D6", "U+01D5">>, <<"U+01D8", "U+01D7">>, <<"U+01DA", "U+01D9">>,
     <<"U+01DC", "U+01DB">>, <<"U+01DD", "U+018E">>, <<"U+01DF", "U+01DE">>,
     <<"U+01E1", "U+01E0">>, <<"U+01E3", "U+01E2">>, <<"U+01E5", "U+01E4">>,
     <<"U+01E7", "U+01E6">>, <<"U+01E9", "U+01E8">>, <<"U+01EB", "U+01EA">>,
     <<"U+01ED", "U+01EC">>, <<"U+01EF", "U+01EE">>, <<"U+01F2", "U+01F1">>,
     <<"U+01F3", "U+01F1">>, <<"U+01F5", "U+01F4">>, <<"U+01F9", "U+01F8">>,
     <<"U+01FB", "U+01FA">>, <<"U+01FD", "U+01FC">>, <<"U+01FF", "U+01FE">>,
     <<"U+0201", "U+0200">>, <<"U+0203", "U+0202">>, <<"U+0205", "U+0204">>,
     <<"U+0207", "U+0206">>, <<"U+0209", "U+0208">>, <<"U+020B", "U+020A">>,
     <<"U+020D", "U+020C">>, <<"U+020F", "U+020E">>, <<"U+0211", "U+0210">>,
     <<"U+0213", "U+0212">>, <<"U+0215", "U+0214">>, <<"U+0217", "U+0216">>,
     <<"U+0219", "U+0218">>, <<"U+021B", "U+021A">>, <<"U+021D", "U+021C">>,
     <<"U+021F", "U+021E">>, <<"U+0223", "U+0222">>, <<"U+0225", "U+0224">>,
     <<"U+0227", "U+0226">>, <<"U+0229", "U+0228">>, <<"U+022B", "U+022A">>,
     <<"U+022D", "U+022C">>, <<"U+022F", "U+022E">>, <<"U+0231", "U+0230">>,
     <<"U+0233", "U+0232">>, <<"U+023C", "U+023B">>, <<"U+023F", "U+2C7E">>,
     <<"U+0240", "U+2C7F">>, <<"U+0242", "U+0241">>, <<"U+0247", "U+0246">>,
     <<"U+0249", "U+0248">>, <<"U+024B", "U+024A">>, <<"U+024D", "U+024C">>,
     <<"U+024F", "U+024E">>, <<"U+0250", "U+2C6F">>, <<"U+0251", "U+2C6D">>,
     <<"U+0252", "U+2C70">>, <<"U+0253", "U+0181">>, <<"U+0254", "U+0186">>,
     <<"U+0256", "U+0189">>, <<"U+0257", "U+018A">>, <<"U+0259", "U+018F">>,
     <<"U+025B", "U+0190">>, <<"U+025C", "U+A7AB">>, <<"U+0260", "U+0193">>,
     <<"U+0261", "U+A7AC">>, <<"U+0263", "U+0194">>, <<"U+0265", "U+A78D">>,
     <<"U+0266", "U+A7AA">>, <<"U+0268", "U+0197">>, <<"U+0269", "U+0196">>,
     <<"U+026A", "U+A7AE">>, <<"U+026B", "U+2C62">>, <<"U+026C", "U+A7AD">>,
     <<"U+026F", "U+019C">>, <<"U+0271", "U+2C6E">>, <<"U+0272", "U+019D">>,
     <<"U+0275", "U+019F">>, <<"U+027D", "U+2C64">>, <<"U+0280", "U+01A6">>,
     <<"U+0282", "U+A7C5">>, <<"U+0283", "U+01A9">>, <<"U+0287", "U+A7B1">>,
     <<"U+0288", "U+01AE">>, <<"U+0289", "U+0244">>, <<"U+028A", "U+01B1">>,
     <<"U+028B", "U+01B2">>, <<"U+028C", "U+0245">>, <<"U+0292", "U+01B7">>,
     <<"U+029D", "U+A7B2">>, <<"U+029E", "U+A7B0">>, <<"U+0345", "U+0399">>,
     <<"U+0371", "U+0370">>, <<"U+0373", "U+0372">>, <<"U+0377", "U+0376">>,
     <<"U+037B", "U+03FD">>, <<"U+037C", "U+03FE">>, <<"U+037D", "U+03FF">>,
     <<"U+03AC", "U+0386">>, <<"U+03AD", "U+0388">>, <<"U+03AE", "U+0389">>,
     <<"U+03AF", "U+038A">>, <<"U+03B1", "U+0391">>, <<"U+03B2", "U+0392">>,
     <<"U+03B3", "U+0393">>, <<"U+03B4", "U+0394">>, <<"U+03B5", "U+0395">>,
     <<"U+03B6", "U+0396">>, <<"U+03B7", "U+0397">>, <<"U+03B8", "U+0398">>,
     <<"U+03B9", "U+0399">>, <<"U+03BA", "U+039A">>, <<"U+03BB", "U+039B">>,
     <<"U+03BC", "U+039C">>, <<"U+03BD", "U+039D">>, <<"U+03BE", "U+039E">>,
     <<"U+03BF", "U+039F">>, <<"U+03C0", "U+03A0">>, <<"U+03C1", "U+03A1">>,
     <<"U+03C2", "U+03A3">>, <<"U+03C3", "U+03A3">>, <<"U+03C4", "U+03A4">>,
     <<"U+03C5", "U+03A5">>, <<"U+03C6", "U+03A6">>, <<"U+03C7", "U+03A7">>,
     <<"U+03C8", "U+03A8">>, <<"U+03C9", "U+03A9">>, <<"U+03CA", "U+03AA">>,
     <<"U+03CB", "U+03AB">>, <<"U+03CC", "U+038C">>, <<"U+03CD", "U+038E">>,
     <<"U+03CE", "U+038F">>, <<"U+03D0", "U+0392">>, <<"U+03D1", "U+0398">>,
     <<"U+03D5", "U+03A6">>, <<"U+03D6", "U+03A0">>, <<"U+03D7", "U+03CF">>,
     <<"U+03D9", "U+03D8">>, <<"U+03DB", "U+03DA">>, <<"U+03DD", "U+03DC">>,
     <<"U+03DF", "U+03DE">>, <<"U+03E1", "U+03E0">>, <<"U+03E3", "U+03E2">>,
     <<"U+03E5", "U+03E4">>, <<"U+03E7", "U+03E6">>, <<"U+03E9", "U+03E8">>,
     <<"U+03EB", "U+03EA">>, <<"U+03ED", "U+03EC">>, <<"U+03EF", "U+03EE">>,
     <<"U+03F0", "U+039A">>, <<"U+03F1", "U+03A1">>, <<"U+03F2", "U+03F9">>,
     <<"U+03F3", "U+037F">>, <<"U+03F5", "U+0395">>, <<"U+03F8", "U+03F7">>,
     <<"U+03FB", "U+03FA">>, <<"U+0430", "U+0410">>, <<"U+0431", "U+0411">>,
     <<"U+0432", "U+0412">>, <<"U+0433", "U+0413">>, <<"U+0434", "U+0414">>,
     <<"U+0435", "U+0415">>, <<"U+0436", "U+0416">>, <<"U+0437", "U+0417">>,
     <<"U+0438", "U+0418">>, <<"U+0439", "U+0419">>, <<"U+043A", "U+041A">>,
     <<"U+043B", "U+041B">>, <<"U+043C", "U+041C">>, <<"U+043D", "U+041D">>,
     <<"U+043E", "U+041E">>, <<"U+043F", "U+041F">>, <<"U+0440", "U+0420">>,
     <<"U+0441", "U+0421">>, <<"U+0442", "U+0422">>, <<"U+0443", "U+0423">>,
     <<"U+0444", "U+0424">>, <<"U+0445", "U+0425">>, <<"U+0446", "U+0426">>,
     <<"U+0447", "U+0427">>, <<"U+0448", "U+0428">>, <<"U+0449", "U+0429">>,
     <<"U+044A", "U+042A">>, <<"U+044B", "U+042B">>, <<"U+044C", "U+042C">>,
     <<"U+044D", "U+042D">>, <<"U+044E", "U+042E">>, <<"U+044F", "U+042F">>,
     <<"U+0450", "U+0400">>, <<"U+0451", "U+0401">>, <<"U+0452", "U+0402">>,
     <<"U+0453", "U+0403">>, <<"U+0454", "U+0404">>, <<"U+0455", "U+0405">>,
     <<"U+0456", "U+0406">>, <<"U+0457", "U+0407">>, <<"U+0458", "U+0408">>,
     <<"U+0459", "U+0409">>, <<"U+045A", "U+040A">>, <<"U+045B", "U+040B">>,
     <<"U+045C", "U+040C">>, <<"U+045D", "U+040D">>, <<"U+045E", "U+040E">>,
     <<"U+045F", "U+040F">>, <<"U+0461", "U+0460">>, <<"U+0463", "U+0462">>,
     <<"U+0465", "U+0464">>, <<"U+0467", "U+0466">>, <<"U+0469", "U+0468">>,
     <<"U+046B", "U+046A">>, <<"U+046D", "U+046C">>, <<"U+046F", "U+046E">>,
     <<"U+0471", "U+0470">>, <<"U+0473", "U+0472">>, <<"U+0475", "U+0474">>,
     <<"U+0477", "U+0476">>, <<"U+0479", "U+0478">>, <<"U+047B", "U+047A">>,
     <<"U+047D", "U+047C">>, <<"U+047F", "U+047E">>, <<"U+0481", "U+0480">>,
     <<"U+048B", "U+048A">>, <<"U+048D", "U+048C">>, <<"U+048F", "U+048E">>,
     <<"U+0491", "U+0490">>, <<"U+0493", "U+0492">>, <<"U+0495", "U+0494">>,
     <<"U+0497", "U+0496">>, <<"U+0499", "U+0498">>, <<"U+049B", "U+049A">>,
     <<"U+049D", "U+049C">>, <<"U+049F", "U+049E">>, <<"U+04A1", "U+04A0">>,
     <<"U+04A3", "U+04A2">>, <<"U+04A5", "U+04A4">>, <<"U+04A7", "U+04A6">>,
     <<"U+04A9", "U+04A8">>, <<"U+04AB", "U+04AA">>, <<"U+04AD", "U+04AC">>,
     <<"U+04AF", "U+04AE">>, <<"U+04B1", "U+04B0">>, <<"U+04B3", "U+04B2">>,
     <<"U+04B5", "U+04B4">>, <<"U+04B7", "U+04B6">>, <<"U+04B9", "U+04B8">>,
     <<"U+04BB", "U+04BA">>, <<"U+04BD", "U+04BC">>, <<"U+04BF", "U+04BE">>,
     <<"U+04C2", "U+04C1">>, <<"U+04C4", "U+04C3">>, <<"U+04C6", "U+04C5">>,
     <<"U+04C8", "U+04C7">>, <<"U+04CA", "U+04C9">>, <<"U+04CC", "U+04CB">>,
     <<"U+04CE", "U+04CD">>, <<"U+04CF", "U+04C0">>, <<"U+04D1", "U+04D0">>,
     <<"U+04D3", "U+04D2">>, <<"U+04D5", "U+04D4">>, <<"U+04D7", "U+04D6">>,
     <<"U+04D9", "U+04D8">>, <<"U+04DB", "U+04DA">>, <<"U+04DD", "U+04DC">>,
     <<"U+04DF", "U+04DE">>, <<"U+04E1", "U+04E0">>, <<"U+04E3", "U+04E2">>,
     <<"U+04E5", "U+04E4">>, <<"U+04E7", "U+04E6">>, <<"U+04E9", "U+04E8">>,
     <<"U+04EB", "U+04EA">>, <<"U+04ED", "U+04EC">>, <<"U+04EF", "U+04EE">>,
     <<"U+04F1", "U+04F0">>, <<"U+04F3", "U+04F2">>, <<"U+04F5", "U+04F4">>,
     <<"U+04F7", "U+04F6">>, <<"U+04F9", "U+04F8">>, <<"U+04FB", "U+04FA">>,
     <<"U+04FD", "U+04FC">>, <<"U+04FF", "U+04FE">>, <<"U+0501", "U+0500">>,
     <<"U+0503", "U+0502">>, <<"U+0505", "U+0504">>, <<"U+0507", "U+0506">>,
     <<"U+0509", "U+0508">>, <<"U+050B", "U+050A">>, <<"U+050D", "U+050C">>,
     <<"U+050F", "U+050E">>, <<"U+0511", "U+0510">>, <<"U+0513", "U+0512">>,
     <<"U+0515", "U+0514">>, <<"U+0517", "U+0516">>, <<"U+0519", "U+0518">>,
     <<"U+051B", "U+051A">>, <<"U+051D", "U+051C">>, <<"U+051F", "U+051E">>,
     <<"U+0521", "U+0520">>, <<"U+0523", "U+0522">>, <<"U+0525", "U+0524">>,
     <<"U+0527", "U+0526">>, <<"U+0529", "U+0528">>, <<"U+052B", "U+052A">>,
     <<"U+052D", "U+052C">>, <<"U+052F", "U+052E">>, <<"U+0561", "U+0531">>,
     <<"U+0562", "U+0532">>, <<"U+0563", "U+0533">>, <<"U+0564", "U+0534">>,
     <<"U+0565", "U+0535">>, <<"U+0566", "U+0536">>, <<"U+0567", "U+0537">>,
     <<"U+0568", "U+0538">>, <<"U+0569", "U+0539">>, <<"U+056A", "U+053A">>,
     <<"U+056B", "U+053B">>, <<"U+056C", "U+053C">>, <<"U+056D", "U+053D">>,
     <<"U+056E", "U+053E">>, <<"U+056F", "U+053F">>, <<"U+0570", "U+0540">>,
     <<"U+0571", "U+0541">>, <<"U+0572", "U+0542">>, <<"U+0573", "U+0543">>,
     <<"U+0574", "U+0544">>, <<"U+0575", "U+0545">>, <<"U+0576", "U+0546">>,
     <<"U+0577", "U+0547">>, <<"U+0578", "U+0548">>, <<"U+0579", "U+0549">>,
     <<"U+057A", "U+054A">>, <<"U+057B", "U+054B">>, <<"U+057C", "U+054C">>,
     <<"U+057D", "U+054D">>, <<"U+057E", "U+054E">>, <<"U+057F", "U+054F">>,
     <<"U+0580", "U+0550">>, <<"U+0581", "U+0551">>, <<"U+0582", "U+0552">>,
     <<"U+0583", "U+0553">>, <<"U+0584", "U+0554">>, <<"U+0585", "U+0555">>,
     <<"U+0586", "U+0556">>, <<"U+10D0", "U+1C90">>, <<"U+10D1", "U+1C91">>,
     <<"U+10D2", "U+1C92">>, <<"U+10D3", "U+1C93">>, <<"U+10D4", "U+1C94">>,
     <<"U+10D5", "U+1C95">>, <<"U+10D6", "U+1C96">>, <<"U+10D7", "U+1C97">>,
     <<"U+10D8", "U+1C98">>, <<"U+10D9", "U+1C99">>, <<"U+10DA", "U+1C9A">>,
     <<"U+10DB", "U+1C9B">>, <<"U+10DC", "U+1C9C">>, <<"U+10DD", "U+1C9D">>,
     <<"U+10DE", "U+1C9E">>, <<"U+10DF", "U+1C9F">>, <<"U+10E0", "U+1CA0">>,
     <<"U+10E1", "U+1CA1">>, <<"U+10E2", "U+1CA2">>, <<"U+10E3", "U+1CA3">>,
     <<"U+10E4", "U+1CA4">>, <<"U+10E5", "U+1CA5">>, <<"U+10E6", "U+1CA6">>,
     <<"U+10E7", "U+1CA7">>, <<"U+10E8", "U+1CA8">>, <<"U+10E9", "U+1CA9">>,
     <<"U+10EA", "U+1CAA">>, <<"U+10EB", "U+1CAB">>, <<"U+10EC", "U+1CAC">>,
     <<"U+10ED", "U+1CAD">>, <<"U+10EE", "U+1CAE">>, <<"U+10EF", "U+1CAF">>,
     <<"U+10F0", "U+1CB0">>, <<"U+10F1", "U+1CB1">>, <<"U+10F2", "U+1CB2">>,
     <<"U+10F3", "U+1CB3">>, <<"U+10F4", "U+1CB4">>, <<"U+10F5", "U+1CB5">>,
     <<"U+10F6", "U+1CB6">>, <<"U+10F7", "U+1CB7">>, <<"U+10F8", "U+1CB8">>,
     <<"U+10F9", "U+1CB9">>, <<"U+10FA", "U+1CBA">>, <<"U+10FD", "U+1CBD">>,
     <<"U+10FE", "U+1CBE">>, <<"U+10FF", "U+1CBF">>, <<"U+13F8", "U+13F0">>,
     <<"U+13F9", "U+13F1">>, <<"U+13FA", "U+13F2">>, <<"U+13FB", "U+13F3">>,
     <<"U+13FC", "U+13F4">>, <<"U+13FD", "U+13F5">>, <<"U+1C80", "U+0412">>,
     <<"U+1C81", "U+0414">>, <<"U+1C82", "U+041E">>, <<"U+1C83", "U+0421">>,
     <<"U+1C84", "U+0422">>, <<"U+1C85", "U+0422">>, <<"U+1C86", "U+042A">>,
     <<"U+1C87", "U+0462">>, <<"U+1C88", "U+A64A">>, <<"U+1D79", "U+A77D">>,
     <<"U+1D7D", "U+2C63">>, <<"U+1D8E", "U+A7C6">>, <<"U+1E01", "U+1E00">>,
     <<"U+1E03", "U+1E02">>, <<"U+1E05", "U+1E04">>, <<"U+1E07", "U+1E06">>,
     <<"U+1E09", "U+1E08">>, <<"U+1E0B", "U+1E0A">>, <<"U+1E0D", "U+1E0C">>,
     <<"U+1E0F", "U+1E0E">>, <<"U+1E11", "U+1E10">>, <<"U+1E13", "U+1E12">>,
     <<"U+1E15", "U+1E14">>, <<"U+1E17", "U+1E16">>, <<"U+1E19", "U+1E18">>,
     <<"U+1E1B", "U+1E1A">>, <<"U+1E1D", "U+1E1C">>, <<"U+1E1F", "U+1E1E">>,
     <<"U+1E21", "U+1E20">>, <<"U+1E23", "U+1E22">>, <<"U+1E25", "U+1E24">>,
     <<"U+1E27", "U+1E26">>, <<"U+1E29", "U+1E28">>, <<"U+1E2B", "U+1E2A">>,
     <<"U+1E2D", "U+1E2C">>, <<"U+1E2F", "U+1E2E">>, <<"U+1E31", "U+1E30">>,
     <<"U+1E33", "U+1E32">>, <<"U+1E35", "U+1E34">>, <<"U+1E37", "U+1E36">>,
     <<"U+1E39", "U+1E38">>, <<"U+1E3B", "U+1E3A">>, <<"U+1E3D", "U+1E3C">>,
     <<"U+1E3F", "U+1E3E">>, <<"U+1E41", "U+1E40">>, <<"U+1E43", "U+1E42">>,
     <<"U+1E45", "U+1E44">>, <<"U+1E47", "U+1E46">>, <<"U+1E49", "U+1E48">>,
     <<"U+1E4B", "U+1E4A">>, <<"U+1E4D", "U+1E4C">>, <<"U+1E4F", "U+1E4E">>,
     <<"U+1E51", "U+1E50">>, <<"U+1E53", "U+1E52">>, <<"U+1E55", "U+1E54">>,
     <<"U+1E57", "U+1E56">>, <<"U+1E59", "U+1E58">>, <<"U+1E5B", "U+1E5A">>,
     <<"U+1E5D", "U+1E5C">>, <<"U+1E5F", "U+1E5E">>, <<"U+1E61", "U+1E60">>,
     <<"U+1E63", "U+1E62">>, <<"U+1E65", "U+1E64">>, <<"U+1E67", "U+1E66">>,
     <<"U+1E69", "U+1E68">>, <<"U+1E6B", "U+1E6A">>, <<"U+1E6D", "U+1E6C">>,
     <<"U+1E6F", "U+1E6E">>, <<"U+1E71", "U+1E70">>, <<"U+1E73", "U+1E72">>,
     <<"U+1E75", "U+1E74">>, <<"U+1E77", "U+1E76">>, <<"U+1E79", "U+1E78">>,
     <<"U+1E7B", "U+1E7A">>, <<"U+1E7D", "U+1E7C">>, <<"U+1E7F", "U+1E7E">>,
     <<"U+1E81", "U+1E80">>, <<"U+1E83", "U+1E82">>, <<"U+1E85", "U+1E84">>,
     <<"U+1E87", "U+1E86">>, <<"U+1E89", "U+1E88">>, <<"U+1E8B", "U+1E8A">>,
     <<"U+1E8D", "U+1E8C">>, <<"U+1E8F", "U+1E8E">>, <<"U+1E91", "U+1E90">>,
     <<"U+1E93", "U+1E92">>, <<"U+1E95", "U+1E94">>, <<"U+1E9B", "U+1E60">>,
     <<"U+1EA1", "U+1EA0">>, <<"U+1EA3", "U+1EA2">>, <<"U+1EA5", "U+1EA4">>,
     <<"U+1EA7", "U+1EA6">>, <<"U+1EA9", "U+1EA8">>, <<"U+1EAB", "U+1EAA">>,
     <<"U+1EAD", "U+1EAC">>, <<"U+1EAF", "U+1EAE">>, <<"U+1EB1", "U+1EB0">>,
     <<"U+1EB3", "U+1EB2">>, <<"U+1EB5", "U+1EB4">>, <<"U+1EB7", "U+1EB6">>,
     <<"U+1EB9", "U+1EB8">>, <<"U+1EBB", "U+1EBA">>, <<"U+1EBD", "U+1EBC">>,
     <<"U+1EBF", "U+1EBE">>, <<"U+1EC1", "U+1EC0">>, <<"U+1EC3", "U+1EC2">>,
     <<"U+1EC5", "U+1EC4">>, <<"U+1EC7", "U+1EC6">>, <<"U+1EC9", "U+1EC8">>,
     <<"U+1ECB", "U+1ECA">>, <<"U+1ECD", "U+1ECC">>, <<"U+1ECF", "U+1ECE">>,
     <<"U+1ED1", "U+1ED0">>, <<"U+1ED3", "U+1ED2">>, <<"U+1ED5", "U+1ED4">>,
     <<"U+1ED7", "U+1ED6">>, <<"U+1ED9", "U+1ED8">>, <<"U+1EDB", "U+1EDA">>,
     <<"U+1EDD", "U+1EDC">>, <<"U+1EDF", "U+1EDE">>, <<"U+1EE1", "U+1EE0">>,
     <<"U+1EE3", "U+1EE2">>, <<"U+1EE5", "U+1EE4">>, <<"U+1EE7", "U+1EE6">>,
     <<"U+1EE9", "U+1EE8">>, <<"U+1EEB", "U+1EEA">>, <<"U+1EED", "U+1EEC">>,
     <<"U+1EEF", "U+1EEE">>, <<"U+1EF1", "U+1EF0">>, <<"U+1EF3", "U+1EF2">>,
     <<"U+1EF5", "U+1EF4">>, <<"U+1EF7", "U+1EF6">>, <<"U+1EF9", "U+1EF8">>,
     <<"U+1EFB", "U+1EFA">>, <<"U+1EFD", "U+1EFC">>, <<"U+1EFF", "U+1EFE">>,
     <<"U+1F00", "U+1F08">>, <<"U+1F01", "U+1F09">>, <<"U+1F02", "U+1F0A">>,
     <<"U+1F03", "U+1F0B">>, <<"U+1F04", "U+1F0C">>, <<"U+1F05", "U+1F0D">>,
     <<"U+1F06", "U+1F0E">>, <<"U+1F07", "U+1F0F">>, <<"U+1F10", "U+1F18">>,
     <<"U+1F11", "U+1F19">>, <<"U+1F12", "U+1F1A">>, <<"U+1F13", "U+1F1B">>,
     <<"U+1F14", "U+1F1C">>, <<"U+1F15", "U+1F1D">>, <<"U+1F20", "U+1F28">>,
     <<"U+1F21", "U+1F29">>, <<"U+1F22", "U+1F2A">>, <<"U+1F23", "U+1F2B">>,
     <<"U+1F24", "U+1F2C">>, <<"U+1F25", "U+1F2D">>, <<"U+1F26", "U+1F2E">>,
     <<"U+1F27", "U+1F2F">>, <<"U+1F30", "U+1F38">>, <<"U+1F31", "U+1F39">>,
     <<"U+1F32", "U+1F3A">>, <<"U+1F33", "U+1F3B">>, <<"U+1F34", "U+1F3C">>,
     <<"U+1F35", "U+1F3D">>, <<"U+1F36", "U+1F3E">>, <<"U+1F37", "U+1F3F">>,
     <<"U+1F40", "U+1F48">>, <<"U+1F41", "U+1F49">>, <<"U+1F42", "U+1F4A">>,
     <<"U+1F43", "U+1F4B">>, <<"U+1F44", "U+1F4C">>, <<"U+1F45", "U+1F4D">>,
     <<"U+1F51", "U+1F59">>, <<"U+1F53", "U+1F5B">>, <<"U+1F55", "U+1F5D">>,
     <<"U+1F57", "U+1F5F">>, <<"U+1F60", "U+1F68">>, <<"U+1F61", "U+1F69">>,
     <<"U+1F62", "U+1F6A">>, <<"U+1F63", "U+1F6B">>, <<"U+1F64", "U+1F6C">>,
     <<"U+1F65", "U+1F6D">>, <<"U+1F66", "U+1F6E">>, <<"U+1F67", "U+1F6F">>,
     <<"U+1F70", "U+1FBA">>, <<"U+1F71", "U+1FBB">>, <<"U+1F72", "U+1FC8">>,
     <<"U+1F73", "U+1FC9">>, <<"U+1F74", "U+1FCA">>, <<"U+1F75", "U+1FCB">>,
     <<"U+1F76", "U+1FDA">>, <<"U+1F77", "U+1FDB">>, <<"U+1F78", "U+1FF8">>,
     <<"U+1F79", "U+1FF9">>, <<"U+1F7A", "U+1FEA">>, <<"U+1F7B", "U+1FEB">>,
     <<"U+1F7C", "U+1FFA">>, <<"U+1F7D", "U+1FFB">>, <<"U+1FB0", "U+1FB8">>,
     <<"U+1FB1", "U+1FB9">>, <<"U+1FBE", "U+0399">>, <<"U+1FD0", "U+1FD8">>,
     <<"U+1FD1", "U+1FD9">>, <<"U+1FE0", "U+1FE8">>, <<"U+1FE1", "U+1FE9">>,
     <<"U+1FE5", "U+1FEC">>, <<"U+214E", "U+2132">>, <<"U+2170", "U+2160">>,
     <<"U+2171", "U+2161">>, <<"U+2172", "U+2162">>, <<"U+2173", "U+2163">>,
     <<"U+2174", "U+2164">>, <<"U+2175", "U+2165">>, <<"U+2176", "U+2166">>,
     <<"U+2177", "U+2167">>, <<"U+2178", "U+2168">>, <<"U+2179", "U+2169">>,
     <<"U+217A", "U+216A">>, <<"U+217B", "U+216B">>, <<"U+217C", "U+216C">>,
     <<"U+217D", "U+216D">>, <<"U+217E", "U+216E">>, <<"U+217F", "U+216F">>,
     <<"U+2184", "U+2183">>, <<"U+24D0", "U+24B6">>, <<"U+24D1", "U+24B7">>,
     <<"U+24D2", "U+24B8">>, <<"U+24D3", "U+24B9">>, <<"U+24D4", "U+24BA">>,
     <<"U+24D5", "U+24BB">>, <<"U+24D6", "U+24BC">>, <<"U+24D7", "U+24BD">>,
     <<"U+24D8", "U+24BE">>, <<"U+24D9", "U+24BF">>, <<"U+24DA", "U+24C0">>,
     <<"U+24DB", "U+24C1">>, <<"U+24DC", "U+24C2">>, <<"U+24DD", "U+24C3">>,
     <<"U+24DE", "U+24C4">>, <<"U+24DF", "U+24C5">>, <<"U+24E0", "U+24C6">>,
     <<"U+24E1", "U+24C7">>, <<"U+24E2", "U+24C8">>, <<"U+24E3", "U+24C9">>,
     <<"U+24E4", "U+24CA">>, <<"U+24E5", "U+24CB">>, <<"U+24E6", "U+24CC">>,
     <<"U+24E7", "U+24CD">>, <<"U+24E8", "U+24CE">>, <<"U+24E9", "U+24CF">>,
     <<"U+2C30", "U+2C00">>, <<"U+2C31", "U+2C01">>, <<"U+2C32", "U+2C02">>,
     <<"U+2C33", "U+2C03">>, <<"U+2C34", "U+2C04">>, <<"U+2C35", "U+2C05">>,
     <<"U+2C36", "U+2C06">>, <<"U+2C37", "U+2C07">>, <<"U+2C38", "U+2C08">>,
     <<"U+2C39", "U+2C09">>, <<"U+2C3A", "U+2C0A">>, <<"U+2C3B", "U+2C0B">>,
     <<"U+2C3C", "U+2C0C">>, <<"U+2C3D", "U+2C0D">>, <<"U+2C3E", "U+2C0E">>,
     <<"U+2C3F", "U+2C0F">>, <<"U+2C40", "U+2C10">>, <<"U+2C41", "U+2C11">>,
     <<"U+2C42", "U+2C12">>, <<"U+2C43", "U+2C13">>, <<"U+2C44", "U+2C14">>,
     <<"U+2C45", "U+2C15">>, <<"U+2C46", "U+2C16">>, <<"U+2C47", "U+2C17">>,
     <<"U+2C48", "U+2C18">>, <<"U+2C49", "U+2C19">>, <<"U+2C4A", "U+2C1A">>,
     <<"U+2C4B", "U+2C1B">>, <<"U+2C4C", "U+2C1C">>, <<"U+2C4D", "U+2C1D">>,
     <<"U+2C4E", "U+2C1E">>, <<"U+2C4F", "U+2C1F">>, <<"U+2C50", "U+2C20">>,
     <<"U+2C51", "U+2C21">>, <<"U+2C52", "U+2C22">>, <<"U+2C53", "U+2C23">>,
     <<"U+2C54", "U+2C24">>, <<"U+2C55", "U+2C25">>, <<"U+2C56", "U+2C26">>,
     <<"U+2C57", "U+2C27">>, <<"U+2C58", "U+2C28">>, <<"U+2C59", "U+2C29">>,
     <<"U+2C5A", "U+2C2A">>, <<"U+2C5B", "U+2C2B">>, <<"U+2C5C", "U+2C2C">>,
     <<"U+2C5D", "U+2C2D">>, <<"U+2C5E", "U+2C2E">>, <<"U+2C5F", "U+2C2F">>,
     <<"U+2C61", "U+2C60">>, <<"U+2C65", "U+023A">>, <<"U+2C66", "U+023E">>,
     <<"U+2C68", "U+2C67">>, <<"U+2C6A", "U+2C69">>, <<"U+2C6C", "U+2C6B">>,
     <<"U+2C73", "U+2C72">>, <<"U+2C76", "U+2C75">>, <<"U+2C81", "U+2C80">>,
     <<"U+2C83", "U+2C82">>, <<"U+2C85", "U+2C84">>, <<"U+2C87", "U+2C86">>,
     <<"U+2C89", "U+2C88">>, <<"U+2C8B", "U+2C8A">>, <<"U+2C8D", "U+2C8C">>,
     <<"U+2C8F", "U+2C8E">>, <<"U+2C91", "U+2C90">>, <<"U+2C93", "U+2C92">>,
     <<"U+2C95", "U+2C94">>, <<"U+2C97", "U+2C96">>, <<"U+2C99", "U+2C98">>,
     <<"U+2C9B", "U+2C9A">>, <<"U+2C9D", "U+2C9C">>, <<"U+2C9F", "U+2C9E">>,
     <<"U+2CA1", "U+2CA0">>, <<"U+2CA3", "U+2CA2">>, <<"U+2CA5", "U+2CA4">>,
     <<"U+2CA7", "U+2CA6">>, <<"U+2CA9", "U+2CA8">>, <<"U+2CAB", "U+2CAA">>,
     <<"U+2CAD", "U+2CAC">>, <<"U+2CAF", "U+2CAE">>, <<"U+2CB1", "U+2CB0">>,
     <<"U+2CB3", "U+2CB2">>, <<"U+2CB5", "U+2CB4">>, <<"U+2CB7", "U+2CB6">>,
     <<"U+2CB9", "U+2CB8">>, <<"U+2CBB", "U+2CBA">>, <<"U+2CBD", "U+2CBC">>,
     <<"U+2CBF", "U+2CBE">>, <<"U+2CC1", "U+2CC0">>, <<"U+2CC3", "U+2CC2">>,
     <<"U+2CC5", "U+2CC4">>, <<"U+2CC7", "U+2CC6">>, <<"U+2CC9", "U+2CC8">>,
     <<"U+2CCB", "U+2CCA">>, <<"U+2CCD", "U+2CCC">>, <<"U+2CCF", "U+2CCE">>,
     <<"U+2CD1", "U+2CD0">>, <<"U+2CD3", "U+2CD2">>, <<"U+2CD5", "U+2CD4">>,
     <<"U+2CD7", "U+2CD6">>, <<"U+2CD9", "U+2CD8">>, <<"U+2CDB", "U+2CDA">>,
     <<"U+2CDD", "U+2CDC">>, <<"U+2CDF", "U+2CDE">>, <<"U+2CE1", "U+2CE0">>,
     <<"U+2CE3", "U+2CE2">>, <<"U+2CEC", "U+2CEB">>, <<"U+2CEE", "U+2CED">>,
     <<"U+2CF3", "U+2CF2">>, <<"U+2D00", "U+10A0">>, <<"U+2D01", "U+10A1">>,
     <<"U+2D02", "U+10A2">>, <<"U+2D03", "U+10A3">>, <<"U+2D04", "U+10A4">>,
     <<"U+2D05", "U+10A5">>, <<"U+2D06", "U+10A6">>, <<"U+2D07", "U+10A7">>,
     <<"U+2D08", "U+10A8">>, <<"U+2D09", "U+10A9">>, <<"U+2D0A", "U+10AA">>,
     <<"U+2D0B", "U+10AB">>, <<"U+2D0C", "U+10AC">>, <<"U+2D0D", "U+10AD">>,
     <<"U+2D0E", "U+10AE">>, <<"U+2D0F", "U+10AF">>, <<"U+2D10", "U+10B0">>,
     <<"U+2D11", "U+10B1">>, <<"U+2D12", "U+10B2">>, <<"U+2D13", "U+10B3">>,
     <<"U+2D14", "U+10B4">>, <<"U+2D15", "U+10B5">>, <<"U+2D16", "U+10B6">>,
     <<"U+2D17", "U+10B7">>, <<"U+2D18", "U+10B8">>, <<"U+2D19", "U+10B9">>,
     <<"U+2D1A", "U+10BA">>, <<"U+2D1B", "U+10BB">>, <<"U+2D1C", "U+10BC">>,
     <<"U+2D1D", "U+10BD">>, <<"U+2D1E", "U+10BE">>, <<"U+2D1F", "U+10BF">>,
     <<"U+2D20", "U+10C0">>, <<"U+2D21", "U+10C1">>, <<"U+2D22", "U+10C2">>,
     <<"U+2D23", "U+10C3">>, <<"U+2D24", "U+10C4">>, <<"U+2D25", "U+10C5">>,
     <<"U+2D27", "U+10C7">>, <<"U+2D2D", "U+10CD">>, <<"U+A641", "U+A640">>,
     <<"U+A643", "U+A642">>, <<"U+A645", "U+A644">>, <<"U+A647", "U+A646">>,
     <<"U+A649", "U+A648">>, <<"U+A64B", "U+A64A">>, <<"U+A64D", "U+A64C">>,
     <<"U+A64F", "U+A64E">>, <<"U+A651", "U+A650">>, <<"U+A653", "U+A652">>,
     <<"U+A655", "U+A654">>, <<"U+A657", "U+A656">>, <<"U+A659", "U+A658">>,
     <<"U+A65B", "U+A65A">>, <<"U+A65D", "U+A65C">>, <<"U+A65F", "U+A65E">>,
     <<"U+A661", "U+A660">>, <<"U+A663", "U+A662">>, <<"U+A665", "U+A664">>,
     <<"U+A667", "U+A666">>, <<"U+A669", "U+A668">>, <<"U+A66B", "U+A66A">>,
     <<"U+A66D", "U+A66C">>, <<"U+A681", "U+A680">>, <<"U+A683", "U+A682">>,
     <<"U+A685", "U+A684">>, <<"U+A687", "U+A686">>, <<"U+A689", "U+A688">>,
     <<"U+A68B", "U+A68A">>, <<"U+A68D", "U+A68C">>, <<"U+A68F", "U+A68E">>,
     <<"U+A691", "U+A690">>, <<"U+A693", "U+A692">>, <<"U+A695", "U+A694">>,
     <<"U+A697", "U+A696">>, <<"U+A699", "U+A698">>, <<"U+A69B", "U+A69A">>,
     <<"U+A723", "U+A722">>, <<"U+A725", "U+A724">>, <<"U+A727", "U+A726">>,
     <<"U+A729", "U+A728">>, <<"U+A72B", "U+A72A">>, <<"U+A72D", "U+A72C">>,
     <<"U+A72F", "U+A72E">>, <<"U+A733", "U+A732">>, <<"U+A735", "U+A734">>,
     <<"U+A737", "U+A736">>, <<"U+A739", "U+A738">>, <<"U+A73B", "U+A73A">>,
     <<"U+A73D", "U+A73C">>, <<"U+A73F", "U+A73E">>, <<"U+A741", "U+A740">>,
     <<"U+A743", "U+A742">>, <<"U+A745", "U+A744">>, <<"U+A747", "U+A746">>,
     <<"U+A749", "U+A748">>, <<"U+A74B", "U+A74A">>, <<"U+A74D", "U+A74C">>,
     <<"U+A74F", "U+A74E">>, <<"U+A751", "U+A750">>, <<"U+A753", "U+A752">>,
     <<"U+A755", "U+A754">>, <<"U+A757", "U+A756">>, <<"U+A759", "U+A758">>,
     <<"U+A75B", "U+A75A">>, <<"U+A75D", "U+A75C">>, <<"U+A75F", "U+A75E">>,
     <<"U+A761", "U+A760">>, <<"U+A763", "U+A762">>, <<"U+A765", "U+A764">>,
     <<"U+A767", "U+A766">>, <<"U+A769", "U+A768">>, <<"U+A76B", "U+A76A">>,
     <<"U+A76D", "U+A76C">>, <<"U+A76F", "U+A76E">>, <<"U+A77A", "U+A779">>,
     <<"U+A77C", "U+A77B">>, <<"U+A77F", "U+A77E">>, <<"U+A781", "U+A780">>,
     <<"U+A783", "U+A782">>, <<"U+A785", "U+A784">>, <<"U+A787", "U+A786">>,
     <<"U+A78C", "U+A78B">>, <<"U+A791", "U+A790">>, <<"U+A793", "U+A792">>,
     <<"U+A794", "U+A7C4">>, <<"U+A797", "U+A796">>, <<"U+A799", "U+A798">>,
     <<"U+A79B", "U+A79A">>, <<"U+A79D", "U+A79C">>, <<"U+A79F", "U+A79E">>,
     <<"U+A7A1", "U+A7A0">>, <<"U+A7A3", "U+A7A2">>, <<"U+A7A5", "U+A7A4">>,
     <<"U+A7A7", "U+A7A6">>, <<"U+A7A9", "U+A7A8">>, <<"U+A7B5", "U+A7B4">>,
     <<"U+A7B7", "U+A7B6">>, <<"U+A7B9", "U+A7B8">>, <<"U+A7BB", "U+A7BA">>,
     <<"U+A7BD", "U+A7BC">>, <<"U+A7BF", "U+A7BE">>, <<"U+A7C1", "U+A7C0">>,
     <<"U+A7C3", "U+A7C2">>, <<"U+A7C8", "U+A7C7">>, <<"U+A7CA", "U+A7C9">>,
     <<"U+A7D1", "U+A7D0">>, <<"U+A7D7", "U+A7D6">>, <<"U+A7D9", "U+A7D8">>,
     <<"U+A7F6", "U+A7F5">>, <<"U+AB53", "U+A7B3">>, <<"U+AB70", "U+13A0">>,
     <<"U+AB71", "U+13A1">>, <<"U+AB72", "U+13A2">>, <<"U+AB73", "U+13A3">>,
     <<"U+AB74", "U+13A4">>, <<"U+AB75", "U+13A5">>, <<"U+AB76", "U+13A6">>,
     <<"U+AB77", "U+13A7">>, <<"U+AB78", "U+13A8">>, <<"U+AB79", "U+13A9">>,
     <<"U+AB7A", "U+13AA">>, <<"U+AB7B", "U+13AB">>, <<"U+AB7C", "U+13AC">>,
     <<"U+AB7D", "U+13AD">>, <<"U+AB7E", "U+13AE">>, <<"U+AB7F", "U+13AF">>,
     <<"U+AB80", "U+13B0">>, <<"U+AB81", "U+13B1">>, <<"U+AB82", "U+13B2">>,
     <<"U+AB83", "U+13B3">>, <<"U+AB84", "U+13B4">>, <<"U+AB85", "U+13B5">>,
     <<"U+AB86", "U+13B6">>, <<"U+AB87", "U+13B7">>, <<"U+AB88", "U+13B8">>,
     <<"U+AB89", "U+13B9">>, <<"U+AB8A", "U+13BA">>, <<"U+AB8B", "U+13BB">>,
     <<"U+AB8C", "U+13BC">>, <<"U+AB8D", "U+13BD">>, <<"U+AB8E", "U+13BE">>,
     <<"U+AB8F", "U+13BF">>, <<"U+AB90", "U+13C0">>, <<"U+AB91", "U+13C1">>,
     <<"U+AB92", "U+13C2">>, <<"U+AB93", "U+13C3">>, <<"U+AB94", "U+13C4">>,
     <<"U+AB95", "U+13C5">>, <<"U+AB96", "U+13C6">>, <<"U+AB97", "U+13C7">>,
     <<"U+AB98", "U+13C8">>, <<"U+AB99", "U+13C9">>, <<"U+AB9A", "U+13CA">>,
     <<"U+AB9B", "U+13CB">>, <<"U+AB9C", "U+13CC">>, <<"U+AB9D", "U+13CD">>,
     <<"U+AB9E", "U+13CE">>, <<"U+AB9F", "U+13CF">>, <<"U+ABA0", "U+13D0">>,
     <<"U+ABA1", "U+13D1">>, <<"U+ABA2", "U+13D2">>, <<"U+ABA3", "U+13D3">>,
     <<"U+ABA4", "U+13D4">>, <<"U+ABA5", "U+13D5">>, <<"U+ABA6", "U+13D6">>,
     <<"U+ABA7", "U+13D7">>, <<"U+ABA8", "U+13D8">>, <<"U+ABA9", "U+13D9">>,
     <<"U+ABAA", "U+13DA">>, <<"U+ABAB", "U+13DB">>, <<"U+ABAC", "U+13DC">>,
     <<"U+ABAD", "U+13DD">>, <<"U+ABAE", "U+13DE">>, <<"U+ABAF", "U+13DF">>,
     <<"U+ABB0", "U+13E0">>, <<"U+ABB1", "U+13E1">>, <<"U+ABB2", "U+13E2">>,
     <<"U+ABB3", "U+13E3">>, <<"U+ABB4", "U+13E4">>, <<"U+ABB5", "U+13E5">>,
     <<"U+ABB6", "U+13E6">>, <<"U+ABB7", "U+13E7">>, <<"U+ABB8", "U+13E8">>,
     <<"U+ABB9", "U+13E9">>, <<"U+ABBA", "U+13EA">>, <<"U+ABBB", "U+13EB">>,
     <<"U+ABBC", "U+13EC">>, <<"U+ABBD", "U+13ED">>, <<"U+ABBE", "U+13EE">>,
     <<"U+ABBF", "U+13EF">>, <<"U+FF41", "U+FF21">>, <<"U+FF42", "U+FF22">>,
     <<"U+FF43", "U+FF23">>, <<"U+FF44", "U+FF24">>, <<"U+FF45", "U+FF25">>,
     <<"U+FF46", "U+FF26">>, <<"U+FF47", "U+FF27">>, <<"U+FF48", "U+FF28">>,
     <<"U+FF49", "U+FF29">>, <<"U+FF4A", "U+FF2A">>, <<"U+FF4B", "U+FF2B">>,
     <<"U+FF4C", "U+FF2C">>, <<"U+FF4D", "U+FF2D">>, <<"U+FF4E", "U+FF2E">>,
     <<"U+FF4F", "U+FF2F">>, <<"U+FF50", "U+FF30">>, <<"U+FF51", "U+FF31">>,
     <<"U+FF52", "U+FF32">>, <<"U+FF53", "U+FF33">>, <<"U+FF54", "U+FF34">>,
     <<"U+FF55", "U+FF35">>, <<"U+FF56", "U+FF36">>, <<"U+FF57", "U+FF37">>,
     <<"U+FF58", "U+FF38">>, <<"U+FF59", "U+FF39">>, <<"U+FF5A", "U+FF3A">>,
     <<"U+10428", "U+10400">>, <<"U+10429", "U+10401">>,
     <<"U+1042A", "U+10402">>, <<"U+1042B", "U+10403">>,
     <<"U+1042C", "U+10404">>, <<"U+1042D", "U+10405">>,
     <<"U+1042E", "U+10406">>, <<"U+1042F", "U+10407">>,
     <<"U+10430", "U+10408">>, <<"U+10431", "U+10409">>,
     <<"U+10432", "U+1040A">>, <<"U+10433", "U+1040B">>,
     <<"U+10434", "U+1040C">>, <<"U+10435", "U+1040D">>,
     <<"U+10436", "U+1040E">>, <<"U+10437", "U+1040F">>,
     <<"U+10438", "U+10410">>, <<"U+10439", "U+10411">>,
     <<"U+1043A", "U+10412">>, <<"U+1043B", "U+10413">>,
     <<"U+1043C", "U+10414">>, <<"U+1043D", "U+10415">>,
     <<"U+1043E", "U+10416">>, <<"U+1043F", "U+10417">>,
     <<"U+10440", "U+10418">>, <<"U+10441", "U+10419">>,
     <<"U+10442", "U+1041A">>, <<"U+10443", "U+1041B">>,
     <<"U+10444", "U+1041C">>, <<"U+10445", "U+1041D">>,
     <<"U+10446", "U+1041E">>, <<"U+10447", "U+1041F">>,
     <<"U+10448", "U+10420">>, <<"U+10449", "U+10421">>,
     <<"U+1044A", "U+10422">>, <<"U+1044B", "U+10423">>,
     <<"U+1044C", "U+10424">>, <<"U+1044D", "U+10425">>,
     <<"U+1044E", "U+10426">>, <<"U+1044F", "U+10427">>,
     <<"U+104D8", "U+104B0">>, <<"U+104D9", "U+104B1">>,
     <<"U+104DA", "U+104B2">>, <<"U+104DB", "U+104B3">>,
     <<"U+104DC", "U+104B4">>, <<"U+104DD", "U+104B5">>,
     <<"U+104DE", "U+104B6">>, <<"U+104DF", "U+104B7">>,
     <<"U+104E0", "U+104B8">>, <<"U+104E1", "U+104B9">>,
     <<"U+104E2", "U+104BA">>, <<"U+104E3", "U+104BB">>,
     <<"U+104E4", "U+104BC">>, <<"U+104E5", "U+104BD">>,
     <<"U+104E6", "U+104BE">>, <<"U+104E7", "U+104BF">>,
     <<"U+104E8", "U+104C0">>, <<"U+104E9", "U+104C1">>,
     <<"U+104EA", "U+104C2">>, <<"U+104EB", "U+104C3">>,
     <<"U+104EC", "U+104C4">>, <<"U+104ED", "U+104C5">>,
     <<"U+104EE", "U+104C6">>, <<"U+104EF", "U+104C7">>,
     <<"U+104F0", "U+104C8">>, <<"U+104F1", "U+104C9">>,
     <<"U+104F2", "U+104CA">>, <<"U+104F3", "U+104CB">>,
     <<"U+104F4", "U+104CC">>, <<"U+104F5", "U+104CD">>,
     <<"U+104F6", "U+104CE">>, <<"U+104F7", "U+104CF">>,
     <<"U+104F8", "U+104D0">>, <<"U+104F9", "U+104D1">>,
     <<"U+104FA", "U+104D2">>, <<"U+104FB", "U+104D3">>,
     <<"U+10597", "U+10570">>, <<"U+10598", "U+10571">>,
     <<"U+10599", "U+10572">>, <<"U+1059A", "U+10573">>,
     <<"U+1059B", "U+10574">>, <<"U+1059C", "U+10575">>,
     <<"U+1059D", "U+10576">>, <<"U+1059E", "U+10577">>,
     <<"U+1059F", "U+10578">>, <<"U+105A0", "U+10579">>,
     <<"U+105A1", "U+1057A">>, <<"U+105A3", "U+1057C">>,
     <<"U+105A4", "U+1057D">>, <<"U+105A5", "U+1057E">>,
     <<"U+105A6", "U+1057F">>, <<"U+105A7", "U+10580">>,
     <<"U+105A8", "U+10581">>, <<"U+105A9", "U+10582">>,
     <<"U+105AA", "U+10583">>, <<"U+105AB", "U+10584">>,
     <<"U+105AC", "U+10585">>, <<"U+105AD", "U+10586">>,
     <<"U+105AE", "U+10587">>, <<"U+105AF", "U+10588">>,
     <<"U+105B0", "U+10589">>, <<"U+105B1", "U+1058A">>,
     <<"U+105B3", "U+1058C">>, <<"U+105B4", "U+1058D">>,
     <<"U+105B5", "U+1058E">>, <<"U+105B6", "U+1058F">>,
     <<"U+105B7", "U+10590">>, <<"U+105B8", "U+10591">>,
     <<"U+105B9", "U+10592">>, <<"U+105BB", "U+10594">>,
     <<"U+105BC", "U+10595">>, <<"U+10CC0", "U+10C80">>,
     <<"U+10CC1", "U+10C81">>, <<"U+10CC2", "U+10C82">>,
     <<"U+10CC3", "U+10C83">>, <<"U+10CC4", "U+10C84">>,
     <<"U+10CC5", "U+10C85">>, <<"U+10CC6", "U+10C86">>,
     <<"U+10CC7", "U+10C87">>, <<"U+10CC8", "U+10C88">>,
     <<"U+10CC9", "U+10C89">>, <<"U+10CCA", "U+10C8A">>,
     <<"U+10CCB", "U+10C8B">>, <<"U+10CCC", "U+10C8C">>,
     <<"U+10CCD", "U+10C8D">>, <<"U+10CCE", "U+10C8E">>,
     <<"U+10CCF", "U+10C8F">>, <<"U+10CD0", "U+10C90">>,
     <<"U+10CD1", "U+10C91">>, <<"U+10CD2", "U+10C92">>,
     <<"U+10CD3", "U+10C93">>, <<"U+10CD4", "U+10C94">>,
     <<"U+10CD5", "U+10C95">>, <<"U+10CD6", "U+10C96">>,
     <<"U+10CD7", "U+10C97">>, <<"U+10CD8", "U+10C98">>,
     <<"U+10CD9", "U+10C99">>, <<"U+10CDA", "U+10C9A">>,
     <<"U+10CDB", "U+10C9B">>, <<"U+10CDC", "U+10C9C">>,
     <<"U+10CDD", "U+10C9D">>, <<"U+10CDE", "U+10C9E">>,
     <<"U+10CDF", "U+10C9F">>, <<"U+10CE0", "U+10CA0">>,
     <<"U+10CE1", "U+10CA1">>, <<"U+10CE2", "U+10CA2">>,
     <<"U+10CE3", "U+10CA3">>, <<"U+10CE4", "U+10CA4">>,
     <<"U+10CE5", "U+10CA5">>, <<"U+10CE6", "U+10CA6">>,
     <<"U+10CE7", "U+10CA7">>, <<"U+10CE8", "U+10CA8">>,
     <<"U+10CE9", "U+10CA9">>, <<"U+10CEA", "U+10CAA">>,
     <<"U+10CEB", "U+10CAB">>, <<"U+10CEC", "U+10CAC">>,
     <<"U+10CED", "U+10CAD">>, <<"U+10CEE", "U+10CAE">>,
     <<"U+10CEF", "U+10CAF">>, <<"U+10CF0", "U+10CB0">>,
     <<"U+10CF1", "U+10CB1">>, <<"U+10CF2", "U+10CB2">>,
     <<"U+118C0", "U+118A0">>, <<"U+118C1", "U+118A1">>,
     <<"U+118C2", "U+118A2">>, <<"U+118C3", "U+118A3">>,
     <<"U+118C4", "U+118A4">>, <<"U+118C5", "U+118A5">>,
     <<"U+118C6", "U+118A6">>, <<"U+118C7", "U+118A7">>,
     <<"U+118C8", "U+118A8">>, <<"U+118C9", "U+118A9">>,
     <<"U+118CA", "U+118AA">>, <<"U+118CB", "U+118AB">>,
     <<"U+118CC", "U+118AC">>, <<"U+118CD", "U+118AD">>,
     <<"U+118CE", "U+118AE">>, <<"U+118CF", "U+118AF">>,
     <<"U+118D0", "U+118B0">>, <<"U+118D1", "U+118B1">>,
     <<"U+118D2", "U+118B2">>, <<"U+118D3", "U+118B3">>,
     <<"U+118D4", "U+118B4">>, <<"U+118D5", "U+118B5">>,
     <<"U+118D6", "U+118B6">>, <<"U+118D7", "U+118B7">>,
     <<"U+118D8", "U+118B8">>, <<"U+118D9", "U+118B9">>,
     <<"U+118DA", "U+118BA">>, <<"U+118DB", "U+118BB">>,
     <<"U+118DC", "U+118BC">>, <<"U+118DD", "U+118BD">>,
     <<"U+118DE", "U+118BE">>, <<"U+118DF", "U+118BF">>,
     <<"U+16E60", "U+16E40">>, <<"U+16E61", "U+16E41">>,
     <<"U+16E62", "U+16E42">>, <<"U+16E63", "U+16E43">>,
     <<"U+16E64", "U+16E44">>, <<"U+16E65", "U+16E45">>,
     <<"U+16E66", "U+16E46">>, <<"U+16E67", "U+16E47">>,
     <<"U+16E68", "U+16E48">>, <<"U+16E69", "U+16E49">>,
     <<"U+16E6A", "U+16E4A">>, <<"U+16E6B", "U+16E4B">>,
     <<"U+16E6C", "U+16E4C">>, <<"U+16E6D", "U+16E4D">>,
     <<"U+16E6E", "U+16E4E">>, <<"U+16E6F", "U+16E4F">>,
     <<"U+16E70", "U+16E50">>, <<"U+16E71", "U+16E51">>,
     <<"U+16E72", "U+16E52">>, <<"U+16E73", "U+16E53">>,
     <<"U+16E74", "U+16E54">>, <<"U+16E75", "U+16E55">>,
     <<"U+16E76", "U+16E56">>, <<"U+16E77", "U+16E57">>,
     <<"U+16E78", "U+16E58">>, <<"U+16E79", "U+16E59">>,
     <<"U+16E7A", "U+16E5A">>, <<"U+16E7B", "U+16E5B">>,
     <<"U+16E7C", "U+16E5C">>, <<"U+16E7D", "U+16E5D">>,
     <<"U+16E7E", "U+16E5E">>, <<"U+16E7F", "U+16E5F">>,
     <<"U+1E922", "U+1E900">>, <<"U+1E923", "U+1E901">>,
     <<"U+1E924", "U+1E902">>, <<"U+1E925", "U+1E903">>,
     <<"U+1E926", "U+1E904">>, <<"U+1E927", "U+1E905">>,
     <<"U+1E928", "U+1E906">>, <<"U+1E929", "U+1E907">>,
     <<"U+1E92A", "U+1E908">>, <<"U+1E92B", "U+1E909">>,
     <<"U+1E92C", "U+1E90A">>, <<"U+1E92D", "U+1E90B">>,
     <<"U+1E92E", "U+1E90C">>, <<"U+1E92F", "U+1E90D">>,
     <<"U+1E930", "U+1E90E">>, <<"U+1E931", "U+1E90F">>,
     <<"U+1E932", "U+1E910">>, <<"U+1E933", "U+1E911">>,
     <<"U+1E934", "U+1E912">>, <<"U+1E935", "U+1E913">>,
     <<"U+1E936", "U+1E914">>, <<"U+1E937", "U+1E915">>,
     <<"U+1E938", "U+1E916">>, <<"U+1E939", "U+1E917">>,
     <<"U+1E93A", "U+1E918">>, <<"U+1E93B", "U+1E919">>,
     <<"U+1E93C", "U+1E91A">>, <<"U+1E93D", "U+1E91B">>,
     <<"U+1E93E", "U+1E91C">>, <<"U+1E93F", "U+1E91D">>,
     <<"U+1E940", "U+1E91E">>, <<"U+1E941", "U+1E91F">>,
     <<"U+1E942", "U+1E920">>, <<"U+1E943", "U+1E921">>}

\* the characters whose upper case is more than one character
UpperMulti ==
    {<<"U+00DF", <<"S", "S">>>>, <<"U+0149", <<"U+02BC", "N">>>>,
     <<"U+01F0", <<"J", "U+030C">>>>,
     <<"U+0390", <<"U+0399", "U+0308", "U+0301">>>>,
     <<"U+03B0", <<"U+03A5", "U+0308", "U+0301">>>>,
     <<"U+0587", <<"U+0535", "U+0552">>>>, <<"U+1E96", <<"H", "U+0331">>>>,
     <<"U+1E97", <<"T", "U+0308">>>>, <<"U+1E98", <<"W", "U+030A">>>>,
     <<"U+1E99", <<"Y", "U+030A">>>>, <<"U+1E9A", <<"A", "U+02BE">>>>,
     <<"U+1F50", <<"U+03A5", "U+0313">>>>,
     <<"U+1F52", <<"U+03A5", "U+0313", "U+0300">>>>,
     <<"U+1F54", <<"U+03A5", "U+0313", "U+0301">>>>,
     <<"U+1F56", <<"U+03A5", "U+0313", "U+0342">>>>,
     <<"U+1F80", <<"U+1F08", "U+0399">>>>,
     <<"U+1F81", <<"U+1F09", "U+0399">>>>,
     <<"U+1F82", <<"U+1F0A", "U+0399">>>>,
     <<"U+1F83", <<"U+1F0B", "U+0399">>>>,
     <<"U+1F84", <<"U+1F0C", "U+0399">>>>,
     <<"U+1F85", <<"U+1F0D", "U+0399">>>>,
     <<"U+1F86", <<"U+1F0E", "U+0399">>>>,
     <<"U+1F87", <<"U+1F0F", "U+0399">>>>,
     <<"U+1F88", <<"U+1F08", "U+0399">>>>,
     <<"U+1F89", <<"U+1F09", "U+0399">>>>,
     <<"U+1F8A", <<"U+1F0A", "U+0399">>>>,
     <<"U+1F8B", <<"U+1F0B", "U+0399">>>>,
     <<"U+1F8C", <<"U+1F0C", "U+0399">>>>,
     <<"U+1F8D", <<"U+1F0D", "U+0399">>>>,
     <<"U+1F8E", <<"U+1F0E", "U+0399">>>>,
     <<"U+1F8F", <<"U+1F0F", "U+0399">>>>,
     <<"U+1F90", <<"U+1F28", "U+0399">>>>,
     <<"U+1F91", <<"U+1F29", "U+0399">>>>,
     <<"U+1F92", <<"U+1F2A", "U+0399">>>>,
     <<"U+1F93", <<"U+1F2B", "U+0399">>>>,
     <<"U+1F94", <<"U+1F2C", "U+0399">>>>,
     <<"U+1F95", <<"U+1F2D", "U+0399">>>>,
     <<"U+1F96", <<"U+1F2E", "U+0399">>>>,
     <<"U+1F97", <<"U+1F2F", "U+0399">>>>,
     <<"U+1F98", <<"U+1F28", "U+0399">>>>,
     <<"U+1F99", <<"U+1F29", "U+0399">>>>,
     <<"U+1F9A", <<"U+1F2A", "U+0399">>>>,
     <<"U+1F9B", <<"U+1F2B", "U+0399">>>>,
     <<"U+1F9C", <<"U+1F2C", "U+0399">>>>,
     <<"U+1F9D", <<"U+1F2D", "U+0399">>>>,
     <<"U+1F9E", <<"U+1F2E", "U+0399">>>>,
     <<"U+1F9F", <<"U+1F2F", "U+0399">>>>,
     <<"U+1FA0", <<"U+1F68", "U+0399">>>>,
     <<"U+1FA1", <<"U+1F69", "U+0399">>>>,
     <<"U+1FA2", <<"U+1F6A", "U+0399">>>>,
     <<"U+1FA3", <<"U+1F6B", "U+0399">>>>,
     <<"U+1FA4", <<"U+1F6C", "U+0399">>>>,
     <<"U+1FA5", <<"U+1F6D", "U+0399">>>>,
     <<"U+1FA6", <<"U+1F6E", "U+0399">>>>,
     <<"U+1FA7", <<"U+1F6F", "U+0399">>>>,
     <<"U+1FA8", <<"U+1F68", "U+0399">>>>,
     <<"U+1FA9", <<"U+1F69", "U+0399">>>>,
     <<"U+1FAA", <<"U+1F6A", "U+0399">>>>,
     <<"U+1FAB", <<"U+1F6B", "U+0399">>>>,
     <<"U+1FAC", <<"U+1F6C", "U+0399">>>>,
     <<"U+1FAD", <<"U+1F6D", "U+0399">>>>,
     <<"U+1FAE", <<"U+1F6E", "U+0399">>>>,
     <<"U+1FAF", <<"U+1F6F", "U+0399">>>>,
     <<"U+1FB2", <<"U+1FBA", "U+0399">>>>,
     <<"U+1FB3", <<"U+0391", "U+0399">>>>,
     <<"U+1FB4", <<"U+0386", "U+0399">>>>,
     <<"U+1FB6", <<"U+0391", "U+0342">>>>,
     <<"U+1FB7", <<"U+0391", "U+0342", "U+0399">>>>,
     <<"U+1FBC", <<"U+0391", "U+0399">>>>,
     <<"U+1FC2", <<"U+1FCA", "U+0399">>>>,
     <<"U+1FC3", <<"U+0397", "U+0399">>>>,
     <<"U+1FC4", <<"U+0389", "U+0399">>>>,
     <<"U+1FC6", <<"U+0397", "U+0342">>>>,
     <<"U+1FC7", <<"U+0397", "U+0342", "U+0399">>>>,
     <<"U+1FCC", <<"U+0397", "U+0399">>>>,
     <<"U+1FD2", <<"U+0399", "U+0308", "U+0300">>>>,
     <<"U+1FD3", <<"U+0399", "U+0308", "U+0301">>>>,
     <<"U+1FD6", <<"U+0399", "U+0342">>>>,
     <<"U+1FD7", <<"U+0399", "U+0308", "U+0342">>>>,
     <<"U+1FE2", <<"U+03A5", "U+0308", "U+0300">>>>,
     <<"U+1FE3", <<"U+03A5", "U+0308", "U+0301">>>>,
     <<"U+1FE4", <<"U+03A1", "U+0313">>>>,
     <<"U+1FE6", <<"U+03A5", "U+0342">>>>,
     <<"U+1FE7", <<"U+03A5", "U+0308", "U+0342">>>>,
     <<"U+1FF2", <<"U+1FFA", "U+0399">>>>,
     <<"U+1FF3", <<"U+03A9", "U+0399">>>>,
     <<"U+1FF4", <<"U+038F", "U+0399">>>>,
     <<"U+1FF6", <<"U+03A9", "U+0342">>>>,
     <<"U+1FF7", <<"U+03A9", "U+0342", "U+0399">>>>,
     <<"U+1FFC", <<"U+03A9", "U+0399">>>>, <<"U+FB00", <<"F", "F">>>>,
     <<"U+FB01", <<"F", "I">>>>, <<"U+FB02", <<"F", "L">>>>,
     <<"U+FB03", <<"F", "F", "I">>>>, <<"U+FB04", <<"F", "F", "L">>>>,
     <<"U+FB05", <<"S", "T">>>>, <<"U+FB06", <<"S", "T">>>>,
     <<"U+FB13", <<"U+0544", "U+0546">>>>,
     <<"U+FB14", <<"U+0544", "U+0535">>>>,
     <<"U+FB15", <<"U+0544", "U+053B">>>>,
     <<"U+FB16", <<"U+054E", "U+0546">>>>,
     <<"U+FB17", <<"U+0544", "U+053D">>>>}

\* the decimal digits outside ASCII, script by script, from zero to nine
UnicodeDigits ==
    <<<<"U+0660", "U+0661", "U+0662", "U+0663", "U+0664", "U+0665", "U+0666", "U+0667", "U+0668", "U+0669">>,
      <<"U+06F0", "U+06F1", "U+06F2", "U+06F3", "U+06F4", "U+06F5", "U+06F6", "U+06F7", "U+06F8", "U+06F9">>,
      <<"U+07C0", "U+07C1", "U+07C2", "U+07C3", "U+07C4", "U+07C5", "U+07C6", "U+07C7", "U+07C8", "U+07C9">>,
      <<"U+0966", "U+0967", "U+0968", "U+0969", "U+096A", "U+096B", "U+096C", "U+096D", "U+096E", "U+096F">>,
      <<"U+09E6", "U+09E7", "U+09E8", "U+09E9", "U+09EA", "U+09EB", "U+09EC", "U+09ED", "U+09EE", "U+09EF">>,
      <<"U+0A66", "U+0A67", "U+0A68", "U+0A69", "U+0A6A", "U+0A6B", "U+0A6C", "U+0A6D", "U+0A6E", "U+0A6F">>,
      <<"U+0AE6", "U+0AE7", "U+0AE8", "U+0AE9", "U+0AEA", "U+0AEB", "U+0AEC", "U+0AED", "U+0AEE", "U+0AEF">>,
      <<"U+0B66", "U+0B67", "U+0B68", "U+0B69", "U+0B6A", "U+0B6B", "U+0B6C", "U+0B6D", "U+0B6E", "U+0B6F">>,
      <<"U+0BE6", "U+0BE7", "U+0BE8", "U+0BE9", "U+0BEA", "U+0BEB", "U+0BEC", "U+0BED", "U+0BEE", "U+0BEF">>,
      <<"U+0C66", "U+0C67", "U+0C68", "U+0C69", "U+0C6A", "U+0C6B", "U+0C6C", "U+0C6D", "U+0C6E", "U+0C6F">>,
      <<"U+0CE6", "U+0CE7", "U+0CE8", "U+0CE9", "U+0CEA", "U+0CEB", "U+0CEC", "U+0CED", "U+0CEE", "U+0CEF">>,
      <<"U+0D66", "U+0D67", "U+0D68", "U+0D69", "U+0D6A", "U+0D6B", "U+0D6C", "U+0D6D", "U+0D6E", "U+0D6F">>,
      <<"U+0DE6", "U+0DE7", "U+0DE8", "U+0DE9", "U+0DEA", "U+0DEB", "U+0DEC", "U+0DED", "U+0DEE", "U+0DEF">>,
      <<"U+0E50", "U+0E51", "U+0E52", "U+0E53", "U+0E54", "U+0E55", "U+0E56", "U+0E57", "U+0E58", "U+0E59">>,
      <<"U+0ED0", "U+0ED1", "U+0ED2", "U+0ED3", "U+0ED4", "U+0ED5", "U+0ED6", "U+0ED7", "U+0ED8", "U+0ED9">>,
      <<"U+0F20", "U+0F21", "U+0F22", "U+0F23", "U+0F24", "U+0F25", "U+0F26", "U+0F27", "U+0F28", "U+0F29">>,
      <<"U+1040", "U+1041", "U+1042", "U+1043", "U+1044", "U+1045", "U+1046", "U+1047", "U+1048", "U+1049">>,
      <<"U+1090", "U+1091", "U+1092", "U+1093", "U+1094", "U+1095", "U+1096", "U+1097", "U+1098", "U+1099">>,
      <<"U+17E0", "U+17E1", "U+17E2", "U+17E3", "U+17E4", "U+17E5", "U+17E6", "U+17E7", "U+17E8", "U+17E9">>,
      <<"U+1810", "U+1811", "U+1812", "U+1813", "U+1814", "U+1815", "U+1816", "U+1817", "U+1818", "U+1819">>,
      <<"U+1946", "U+1947", "U+1948", "U+1949", "U+194A", "U+194B", "U+194C", "U+194D", "U+194E", "U+194F">>,
      <<"U+19D0", "U+19D1", "U+19D2", "U+19D3", "U+19D4", "U+19D5", "U+19D6", "U+19D7", "U+19D8", "U+19D9">>,
      <<"U+1A80", "U+1A81", "U+1A82", "U+1A83", "U+1A84", "U+1A85", "U+1A86", "U+1A87", "U+1A88", "U+1A89">>,
      <<"U+1A90", "U+1A91", "U+1A92", "U+1A93", "U+1A94", "U+1A95", "U+1A96", "U+1A97", "U+1A98", "U+1A99">>,
      <<"U+1B50", "U+1B51", "U+1B52", "U+1B53", "U+1B54", "U+1B55", "U+1B56", "U+1B57", "U+1B58", "U+1B59">>,
      <<"U+1BB0", "U+1BB1", "U+1BB2", "U+1BB3", "U+1BB4", "U+1BB5", "U+1BB6", "U+1BB7", "U+1BB8", "U+1BB9">>,
      <<"U+1C40", "U+1C41", "U+1C42", "U+1C43", "U+1C44", "U+1C45", "U+1C46", "U+1C47", "U+1C48", "U+1C49">>,
      <<"U+1C50", "U+1C51", "U+1C52", "U+1C53", "U+1C54", "U+1C55", "U+1C56", "U+1C57", "U+1C58", "U+1C59">>,
      <<"U+A620", "U+A621", "U+A622", "U+A623", "U+A624", "U+A625", "U+A626", "U+A627", "U+A628", "U+A629">>,
      <<"U+A8D0", "U+A8D1", "U+A8D2", "U+A8D3", "U+A8D4", "U+A8D5", "U+A8D6", "U+A8D7", "U+A8D8", "U+A8D9">>,
      <<"U+A900", "U+A901", "U+A902", "U+A903", "U+A904", "U+A905", "U+A906", "U+A907", "U+A908", "U+A909">>,
      <<"U+A9D0", "U+A9D1", "U+A9D2", "U+A9D3", "U+A9D4", "U+A9D5", "U+A9D6", "U+A9D7", "U+A9D8", "U+A9D9">>,
      <<"U+A9F0", "U+A9F1", "U+A9F2", "U+A9F3", "U+A9F4", "U+A9F5", "U+A9F6", "U+A9F7", "U+A9F8", "U+A9F9">>,
      <<"U+AA50", "U+AA51", "U+AA52", "U+AA53", "U+AA54", "U+AA55", "U+AA56", "U+AA57", "U+AA58", "U+AA59">>,
      <<"U+ABF0", "U+ABF1", "U+ABF2", "U+ABF3", "U+ABF4", "U+ABF5", "U+ABF6", "U+ABF7", "U+ABF8", "U+ABF9">>,
      <<"U+FF10", "U+FF11", "U+FF12", "U+FF13", "U+FF14", "U+FF15", "U+FF16", "U+FF17", "U+FF18", "U+FF19">>,
      <<"U+104A0", "U+104A1", "U+104A2", "U+104A3", "U+104A4", "U+104A5", "U+104A6", "U+104A7", "U+104A8", "U+104A9">>,
      <<"U+10D30", "U+10D31", "U+10D32", "U+10D33", "U+10D34", "U+10D35", "U+10D36", "U+10D37", "U+10D38", "U+10D39">>,
      <<"U+11066", "U+11067", "U+11068", "U+11069", "U+1106A", "U+1106B", "U+1106C", "U+1106D", "U+1106E", "U+1106F">>,
      <<"U+110F0", "U+110F1", "U+110F2", "U+110F3", "U+110F4", "U+110F5", "U+110F6", "U+110F7", "U+110F8", "U+110F9">>,
      <<"U+11136", "U+11137", "U+11138", "U+11139", "U+1113A", "U+1113B", "U+1113C", "U+1113D", "U+1113E", "U+1113F">>,
      <<"U+111D0", "U+111D1", "U+111D2", "U+111D3", "U+111D4", "U+111D5", "U+111D6", "U+111D7", "U+111D8", "U+111D9">>,
      <<"U+112F0", "U+112F1", "U+112F2", "U+112F3", "U+112F4", "U+112F5", "U+112F6", "U+112F7", "U+112F8", "U+112F9">>,
      <<"U+11450", "U+11451", "U+11452", "U+11453", "U+11454", "U+11455", "U+11456", "U+11457", "U+11458", "U+11459">>,
      <<"U+114D0", "U+114D1", "U+114D2", "U+114D3", "U+114D4", "U+114D5", "U+114D6", "U+114D7", "U+114D8", "U+114D9">>,
      <<"U+11650", "U+11651", "U+11652", "U+11653", "U+11654", "U+11655", "U+11656", "U+11657", "U+11658", "U+11659">>,
      <<"U+116C0", "U+116C1", "U+116C2", "U+116C3", "U+116C4", "U+116C5", "U+116C6", "U+116C7", "U+116C8", "U+116C9">>,
      <<"U+11730", "U+11731", "U+11732", "U+11733", "U+11734", "U+11735", "U+11736", "U+11737", "U+11738", "U+11739">>,
      <<"U+118E0", "U+118E1", "U+118E2", "U+118E3", "U+118E4", "U+118E5", "U+118E6", "U+118E7", "U+118E8", "U+118E9">>,
      <<"U+11950", "U+11951", "U+11952", "U+11953", "U+11954", "U+11955", "U+11956", "U+11957", "U+11958", "U+11959">>,
      <<"U+11C50", "U+11C51", "U+11C52", "U+11C53", "U+11C54", "U+11C55", "U+11C56", "U+11C57", "U+11C58", "U+11C59">>,
      <<"U+11D50", "U+11D51", "U+11D52", "U+11D53", "U+11D54", "U+11D55", "U+11D56", "U+11D57", "U+11D58", "U+11D59">>,
      <<"U+11DA0", "U+11DA1", "U+11DA2", "U+11DA3", "U+11DA4", "U+11DA5", "U+11DA6", "U+11DA7", "U+11DA8", "U+11DA9">>,
      <<"U+16A60", "U+16A61", "U+16A62", "U+16A63", "U+16A64", "U+16A65", "U+16A66", "U+16A67", "U+16A68", "U+16A69">>,
      <<"U+16AC0", "U+16AC1", "U+16AC2", "U+16AC3", "U+16AC4", "U+16AC5", "U+16AC6", "U+16AC7", "U+16AC8", "U+16AC9">>,
      <<"U+16B50", "U+16B51", "U+16B52", "U+16B53", "U+16B54", "U+16B55", "U+16B56", "U+16B57", "U+16B58", "U+16B59">>,
      <<"U+1D7CE", "U+1D7CF", "U+1D7D0", "U+1D7D1", "U+1D7D2", "U+1D7D3", "U+1D7D4", "U+1D7D5", "U+1D7D6", "U+1D7D7">>,
      <<"U+1D7D8", "U+1D7D9", "U+1D7DA", "U+1D7DB", "U+1D7DC", "U+1D7DD", "U+1D7DE", "U+1D7DF", "U+1D7E0", "U+1D7E1">>,
      <<"U+1D7E2", "U+1D7E3", "U+1D7E4", "U+1D7E5", "U+1D7E6", "U+1D7E7", "U+1D7E8", "U+1D7E9", "U+1D7EA", "U+1D7EB">>,
      <<"U+1D7EC", "U+1D7ED", "U+1D7EE", "U+1D7EF", "U+1D7F0", "U+1D7F1", "U+1D7F2", "U+1D7F3", "U+1D7F4", "U+1D7F5">>,
      <<"U+1D7F6", "U+1D7F7", "U+1D7F8", "U+1D7F9", "U+1D7FA", "U+1D7FB", "U+1D7FC", "U+1D7FD", "U+1D7FE", "U+1D7FF">>,
      <<"U+1E140", "U+1E141", "U+1E142", "U+1E143", "U+1E144", "U+1E145", "U+1E146", "U+1E147", "U+1E148", "U+1E149">>,
      <<"U+1E2F0", "U+1E2F1", "U+1E2F2", "U+1E2F3", "U+1E2F4", "U+1E2F5", "U+1E2F6", "U+1E2F7", "U+1E2F8", "U+1E2F9">>,
      <<"U+1E950", "U+1E951", "U+1E952", "U+1E953", "U+1E954", "U+1E955", "U+1E956", "U+1E957", "U+1E958", "U+1E959">>,
      <<"U+1FBF0", "U+1FBF1", "U+1FBF2", "U+1FBF3", "U+1FBF4", "U+1FBF5", "U+1FBF6", "U+1FBF7", "U+1FBF8", "U+1FBF9">>>>

\* the least and the greatest position of flags that holds TRUE from lo to
\* hi, 0 when there is none
RECURSIVE FirstIn(_, _, _)
FirstIn(flags, lo, hi) ==
    IF lo > hi THEN 0
    ELSE IF lo = hi THEN (IF flags[lo] THEN lo ELSE 0)
    ELSE LET mid == (lo + hi) \div 2
             l == FirstIn(flags, lo, mid)
         IN IF l # 0 THEN l ELSE FirstIn(flags, mid + 1, hi)
RECURSIVE LastIn(_, _, _)
LastIn(flags, lo, hi) ==
    IF lo > hi THEN 0
    ELSE IF lo = hi THEN (IF flags[lo] THEN lo ELSE 0)
    ELSE LET mid == (lo + hi) \div 2
             h == LastIn(flags, mid + 1, hi)
         IN IF h # 0 THEN h ELSE LastIn(flags, lo, mid)
First(flags) == FirstIn(flags, 1, Len(flags))
Last(flags) == LastIn(flags, 1, Len(flags))

\* a character that is its own name
IsPlain(c) == Len(c) = 1

\* upper case of an ASCII character
AsciiUpperChar(c) ==
    IF \E i \in DOMAIN LowerLetters : LowerLetters[i] = c
    THEN UpperLetters[CHOOSE i \in DOMAIN LowerLetters : LowerLetters[i] = c]
    ELSE c

\* str.upper on one character: the characters it becomes
UpperChar(c) ==
    IF IsPlain(c) THEN <<AsciiUpperChar(c)>>
    ELSE IF \E p \in UpperSingle : p[1] = c
    THEN <<(CHOOSE p \in UpperSingle : p[1] = c)[2]>>
    ELSE IF \E p \in UpperMulti : p[1] = c
    THEN (CHOOSE p \in UpperMulti : p[1] = c)[2]
    ELSE <<c>>

\* str.upper
RECURSIVE UpperIn(_, _, _)
UpperIn(s, lo, hi) ==
    IF lo > hi THEN <<>>
    ELSE IF lo = hi THEN UpperChar(s[lo])
    ELSE LET mid == (lo + hi) \div 2
         IN UpperIn(s, lo, mid) \o UpperIn(s, mid + 1, hi)
upper(s) == UpperIn(s, 1, Len(s))

\* str(n) for a non-negative int
RECURSIVE Dec(_)
Dec(n) == IF n < 10 THEN <<Digits[n + 1]>>
          ELSE Dec(n \div 10) \o <<Digits[(n % 10) + 1]>>

\* f"{x}": a str is inserted as it is, an int in decimal
format(x) == IF x.t = "int" THEN Dec(x.v) ELSE x.v

\* s without the characters of cs it begins with, and without those it ends
\* with
lstripOf(s, cs) ==
    LET i == First([j \in 1..Len(s) |-> s[j] \notin cs])
    IN IF i = 0 THEN <<>> ELSE SubSeq(s, i, Len(s))
rstripOf(s, cs) == SubSeq(s, 1, Last([j \in 1..Len(s) |-> s[j] \notin cs]))

\* str.strip
lstrip(s) == lstripOf(s, Whitespace)
rstrip(s) == rstripOf(s, Whitespace)
strip(s) == rstrip(lstrip(s))

IsDigit(c) == \E i \in DOMAIN Digits : Digits[i] = c
DigitVal(c) == (CHOOSE i \in DOMAIN Digits : Digits[i] = c) - 1
RECURSIVE DecVal(_)
DecVal(s) == IF s = <<>> THEN 0
             ELSE 10 * DecVal(SubSeq(s, 1, Len(s) - 1)) + DigitVal(s[Len(s)])
IsDecimal(s) == s # <<>> /\ \A i \in DOMAIN s : IsDigit(s[i])

-----------------------------------------------------------------------------
(* Python floats.  A float is an IEEE 754 binary64.  A finite one is         *)
(* (-1)^neg * m * 2^x, where m is a natural written in binary, the most      *)
(* significant bit first, and is odd, so that every value is written in one  *)
(* way only; 0.0 and -0.0 have m = <<>> and x = 0.                           *)

PyFloat(neg, m, x) == [t |-> "float", k |-> "finite", neg |-> neg, m |-> m, x |-> x]
PyInf(neg) == [t |-> "float", k |-> "inf", neg |-> neg, m |-> <<>>, x |-> 0]
PyNan == [t |-> "float", k |-> "nan", neg |-> FALSE, m |-> <<>>, x |-> 0]

\* bits of the significand, least binary exponent of a subnormal, and the
\* power of two that is too large to be finite
MantBits == 53
MinExp == 0 - 1074
MaxExp == 1024

\* m * 2^x in the one way it is written: no zero bit first or last in m; a
\* value of 2^MaxExp or more is an infinity
Normal(neg, m, x) ==
    LET ones == [i \in 1..Len(m) |-> m[i] = 1]
        lo == First(ones)
        hi == Last(ones)
    IN IF lo = 0 THEN PyFloat(neg, <<>>, 0)
       ELSE IF (hi - lo + 1) + (x + Len(m) - hi) > MaxExp THEN PyInf(neg)
       ELSE PyFloat(neg, SubSeq(m, lo, hi), x + Len(m) - hi)

\* the bits of a natural below 2^30
IntBits(n) ==
    IF n = 0 THEN <<>>
    ELSE LET len == CHOOSE l \in 1..30 : 2 ^ (l - 1) <= n /\ n < 2 ^ l
         IN [i \in 1..len |-> (n \div 2 ^ (len - i)) % 2]

\* the bits of m + 1
Succ(m) ==
    LET z == Last([i \in 1..Len(m) |-> m[i] = 0])
    IN (IF z = 0 THEN <<1>> ELSE SubSeq(m, 1, z - 1) \o <<1>>)
           \o [i \in 1..(Len(m) - z) |-> 0]

\* Naturals of any size, for the conversion from decimal: the digits in base
\* 1000, the least significant first, the last one not 0 (0 is <<>>).
Base == 1000

Trim(a) == SubSeq(a, 1, Last([i \in 1..Len(a) |-> a[i] # 0]))

\* the digits lo to hi of a * k + c and the carry out of them, for k up to
\* 2^20 and c up to k
RECURSIVE MulIn(_, _, _, _, _)
MulIn(a, k, c, lo, hi) ==
    IF lo > hi THEN [d |-> <<>>, c |-> c]
    ELSE IF lo = hi
    THEN LET t == a[lo] * k + c IN [d |-> <<t % Base>>, c |-> t \div Base]
    ELSE LET mid == (lo + hi) \div 2
             l == MulIn(a, k, c, lo, mid)
             h == MulIn(a, k, l.c, mid + 1, hi)
         IN [d |-> l.d \o h.d, c |-> h.c]

\* a * k, for 1 <= k <= 2^20
MulSmall(a, k) ==
    LET r == MulIn(a, k, 0, 1, Len(a))
    IN r.d \o Trim(<<r.c % Base, (r.c \div Base) % Base, r.c \div (Base * Base)>>)

\* a * 2^k
RECURSIVE MulPow2(_, _)
MulPow2(a, k) ==
    IF a = <<>> THEN <<>>
    ELSE IF k <= 20 THEN MulSmall(a, 2 ^ k)
    ELSE LET h == 20 * (((k \div 20) + 1) \div 2)
         IN MulPow2(MulPow2(a, h), k - h)

\* -1, 0 or 1 as a < b, a = b or a > b
Cmp(a, b) ==
    IF Len(a) < Len(b) THEN 0 - 1
    ELSE IF Len(a) > Len(b) THEN 1
    ELSE LET i == Last([j \in 1..Len(a) |-> a[j] # b[j]])
         IN IF i = 0 THEN 0 ELSE IF a[i] < b[i] THEN 0 - 1 ELSE 1

\* the digits lo to hi of a - b - borrow and the borrow out of them
RECURSIVE SubIn(_, _, _, _, _)
SubIn(a, b, borrow, lo, hi) ==
    IF lo > hi THEN [d |-> <<>>, c |-> borrow]
    ELSE IF lo = hi
    THEN LET t == a[lo] - (IF lo <= Len(b) THEN b[lo] ELSE 0) - borrow
         IN [d |-> <<IF t < 0 THEN t + Base ELSE t>>, c |-> IF t < 0 THEN 1 ELSE 0]
    ELSE LET mid == (lo + hi) \div 2
             l == SubIn(a, b, borrow, lo, mid)
             h == SubIn(a, b, l.c, mid + 1, hi)
         IN [d |-> l.d \o h.d, c |-> h.c]

\* a - b, for a >= b
Sub(a, b) == Trim(SubIn(a, b, 0, 1, Len(a)).d)

\* the natural that the decimal digits s write
FromDecimal(s) ==
    LET n == Len(s)
        d(i) == IF i >= 1 THEN DigitVal(s[i]) ELSE 0
    IN Trim([i \in 1..((n + 2) \div 3) |->
                d(n - 3 * (i - 1)) + 10 * d(n - 3 * (i - 1) - 1)
                    + 100 * d(n - 3 * (i - 1) - 2)])

\* 10^k, and a * 10^k
Pow10(k) == [i \in 1..(k \div 3) |-> 0] \o <<10 ^ (k % 3)>>
MulPow10(a, k) == IF a = <<>> THEN <<>>
                  ELSE [i \in 1..(k \div 3) |-> 0] \o MulSmall(a, 10 ^ (k % 3))

\* the k bits of the quotient of r by mt / 2^52, for r < 2 * mt, and what is
\* left of r
RECURSIVE Quotient(_, _, _)
Quotient(r, mt, k) ==
    IF k = 0 THEN [bits |-> <<>>, rem |-> r]
    ELSE IF k = 1
    THEN LET b == Cmp(r, mt) >= 0
         IN [bits |-> <<IF b THEN 1 ELSE 0>>,
             rem |-> MulSmall(IF b THEN Sub(r, mt) ELSE r, 2)]
    ELSE LET first == Quotient(r, mt, k \div 2)
             rest == Quotient(first.rem, mt, k - (k \div 2))
         IN [bits |-> first.bits \o rest.bits, rem |-> rest.rem]

\* a power of two that is not above any number of d decimal digits before the
\* point (d <= 0 for zeros after the point): 2^Log2Floor(d) <= 10^(d - 1); the
\* number itself is below 2^(Log2Floor(d) + Log2Span)
Log2Floor(d) == (((d - 1) * 3321928) \div 1000000) - 1
Log2Span == 6

\* a tie is rounded up when the last bit kept is 1: c is how what is left
\* compares with one half
RoundsUp(c, lastBit) == c > 0 \/ (c = 0 /\ lastBit = 1)

\* q, the MantBits bits of the quotient and what is left of the dividend,
\* rounded to the nearest significand, a tie to the even one
Round64(neg, q, mt, x) ==
    Normal(neg,
           IF RoundsUp(Cmp(q.rem, mt), q.bits[MantBits]) THEN Succ(q.bits)
           ELSE q.bits,
           x)

\* r / (mt / 2^52) * 2^x, for r < 2 * mt
Divide64(neg, r, mt, x) == Round64(neg, Quotient(r, mt, MantBits), mt, x)

\* n / m as a significand of MantBits bits times 2^x
Shift64(neg, n, m, x) ==
    Divide64(neg,
             IF x < 0 THEN MulPow2(n, 0 - x) ELSE n,
             MulPow2(m, (IF x > 0 THEN x ELSE 0) + (MantBits - 1)),
             x)

\* the j from 0 to Log2Span with m * 2^j <= n < m * 2^(j + 1)
Log2Within(n, m) ==
    CHOOSE j \in 0..Log2Span :
        /\ Cmp(n, MulSmall(m, 2 ^ j)) >= 0
        /\ Cmp(n, MulSmall(m, 2 ^ (j + 1))) < 0

\* the b with 2^b <= n / m < 2^(b + 1), for one that is at least b0
Log2From(n, m, b0) ==
    b0 + Log2Within(IF b0 < 0 THEN MulPow2(n, 0 - b0) ELSE n,
                    IF b0 > 0 THEN MulPow2(m, b0) ELSE m)

\* the exponent of the last bit of a significand of MantBits bits whose first
\* bit has exponent b; that of the subnormals when it would be less
LastBitExp(b) == IF b - (MantBits - 1) < MinExp THEN MinExp ELSE b - (MantBits - 1)

\* the binary64 nearest to n / m, a number of d decimal digits before the point
Ratio64(neg, n, m, d) ==
    Shift64(neg, n, m, LastBitExp(Log2From(n, m, Log2Floor(d))))

\* the binary64 nearest to sig * 10^e, for digits sig that neither begin nor
\* end with 0.  A value that is a natural below 10^9 over a power of two is a
\* binary64 as it is.  Any other is n / m for two naturals; its binary exponent
\* is found by comparing n with m times powers of two, the quotient is taken
\* bit by bit, and it is rounded by what is left.
Decimal64(neg, sig, e) ==
    IF sig = <<>> THEN PyFloat(neg, <<>>, 0)
    ELSE IF Len(sig) + e > 309 THEN PyInf(neg)
    ELSE IF Len(sig) + e < 0 - 323 THEN PyFloat(neg, <<>>, 0)
    ELSE IF Len(sig) <= 9 /\ e >= 0 /\ Len(sig) + e <= 9
    THEN Normal(neg, IntBits(DecVal(sig) * 10 ^ e), 0)
    ELSE IF Len(sig) <= 9 /\ e < 0 /\ e >= 0 - 13 /\ DecVal(sig) % (5 ^ (0 - e)) = 0
    THEN Normal(neg, IntBits(DecVal(sig) \div (5 ^ (0 - e))), e)
    ELSE IF e >= 0
    THEN Ratio64(neg, MulPow10(FromDecimal(sig), e), <<1>>, Len(sig) + e)
    ELSE Ratio64(neg, FromDecimal(sig), Pow10(0 - e), Len(sig) + e)

\* digits that do not begin with 0, times 10^e10
Trailing64(neg, lead, e10) ==
    Decimal64(neg, rstripOf(lead, {"0"}),
              e10 + (Len(lead) - Len(rstripOf(lead, {"0"}))))

\* the binary64 nearest to digits * 10^e10, ties to the even significand
Binary64(neg, digits, e10) == Trailing64(neg, lstripOf(digits, {"0"}), e10)

\* the first position of s that holds one of cs, 0 when there is none
Index(s, cs) == First([i \in 1..Len(s) |-> s[i] \in cs])

\* digits, with single underscores allowed between two digits
IsDigitRun(s) ==
    /\ s # <<>>
    /\ \A i \in DOMAIN s : IsDigit(s[i]) \/ s[i] = "_"
    /\ IsDigit(s[1]) /\ IsDigit(s[Len(s)])
    /\ \A i \in 1..(Len(s) - 1) : ~(s[i] = "_" /\ s[i + 1] = "_")
IsNotUnderscore(c) == c # "_"
RunDigits(s) == SelectSeq(s, IsNotUnderscore)

\* [+-]digits
IsExponent(s) ==
    /\ s # <<>>
    /\ IsDigitRun(IF s[1] \in {"+", "-"} THEN Tail(s) ELSE s)
\* the exponent; one of more than nine digits is beyond every float and every
\* number of digits, and counts as 10^9
ExponentVal(s) ==
    LET signed == s[1] \in {"+", "-"}
        ds == lstripOf(RunDigits(IF signed THEN Tail(s) ELSE s), {"0"})
        v == IF Len(ds) > 9 THEN 10 ^ 9 ELSE DecVal(ds)
    IN IF s[1] = "-" THEN 0 - v ELSE v

\* what float() reads a character as: outside ASCII a space is a blank and a
\* decimal digit of any script is the ASCII digit
ToAscii(c) ==
    IF IsPlain(c) THEN c
    ELSE IF c \in Whitespace \ {"U+000B", "U+001C", "U+001D", "U+001E", "U+001F"}
    THEN " "
    ELSE IF \E r \in DOMAIN UnicodeDigits : \E i \in 1..10 : UnicodeDigits[r][i] = c
    THEN LET r == CHOOSE r \in DOMAIN UnicodeDigits :
                      \E i \in 1..10 : UnicodeDigits[r][i] = c
         IN Digits[CHOOSE i \in 1..10 : UnicodeDigits[r][i] = c]
    ELSE c

\* the blanks float() ignores around the number
FloatSpace == {" ", "\t", "\n", "U+000B", "\f", "\r"}

\* what float() makes of a str it cannot read
NotAFloat == [ok |-> FALSE, v |-> None]

\* digits before the point, digits after it, and what follows the e if there
\* is one: each run of digits may be missing, not both; the exponent may not
NumberOf(neg, ip, fp, hasExp, expo) ==
    IF ~ (/\ ip = <<>> \/ IsDigitRun(ip)
          /\ fp = <<>> \/ IsDigitRun(fp)
          /\ ip # <<>> \/ fp # <<>>
          /\ hasExp => IsExponent(expo))
    THEN NotAFloat
    ELSE [ok |-> TRUE,
          v |-> Binary64(neg, RunDigits(ip) \o RunDigits(fp),
                         (IF hasExp THEN ExponentVal(expo) ELSE 0)
                             - Len(RunDigits(fp)))]

\* mant is split at its point, at position pi (0: it has none)
MantissaOf(neg, mant, pi, hasExp, expo) ==
    NumberOf(neg,
             IF pi = 0 THEN mant ELSE SubSeq(mant, 1, pi - 1),
             IF pi = 0 THEN <<>> ELSE SubSeq(mant, pi + 1, Len(mant)),
             hasExp, expo)

\* u is split at its e, at position ei (0: it has none)
ExponentOf(neg, u, ei) ==
    IF ei = 0 THEN MantissaOf(neg, u, Index(u, {"."}), FALSE, <<>>)
    ELSE MantissaOf(neg, SubSeq(u, 1, ei - 1),
                    Index(SubSeq(u, 1, ei - 1), {"."}),
                    TRUE, SubSeq(u, ei + 1, Len(u)))

\* what follows the sign: inf, infinity or nan written in ASCII letters of
\* any case (word is u in upper case), or a number
UnsignedOf(neg, u, word) ==
    IF word \in { <<"I","N","F">>, <<"I","N","F","I","N","I","T","Y">> }
    THEN [ok |-> TRUE, v |-> PyInf(neg)]
    ELSE IF word = <<"N","A","N">>
    THEN [ok |-> TRUE, v |-> PyNan]
    ELSE ExponentOf(neg, u, Index(u, {"e", "E"}))

\* t with the sign it begins with taken off, if it begins with one
Unsigned(t) == IF t # <<>> /\ t[1] \in {"+", "-"} THEN Tail(t) ELSE t

\* the str without the blanks around it
SignedOf(t) ==
    UnsignedOf(t # <<>> /\ t[1] = "-", Unsigned(t),
               [i \in 1..Len(Unsigned(t)) |-> AsciiUpperChar(Unsigned(t)[i])])

\* float(s): surrounding blanks are ignored; then an optional sign and either
\* inf, infinity or nan in any letter case, or digits with an optional point
\* and an optional exponent; anything else is a ValueError
float(s) ==
    SignedOf(rstripOf(lstripOf([i \in 1..Len(s) |-> ToAscii(s[i])], FloatSpace),
                      FloatSpace))

HasPrefix(s, p) == Len(s) >= Len(p) /\ SubSeq(s, 1, Len(p)) = p

\* the text of s before its first blank
RECURSIVE FirstWord(_)
FirstWord(s) == IF s = <<>> \/ Head(s) = " " THEN <<>>
                ELSE <<Head(s)>> \o FirstWord(Tail(s))

-----------------------------------------------------------------------------
(* The command vocabulary *)

PRESET    == <<"P","R","E","S","E","T">>
TRIG_HOLD == <<"T","R","I","G"," ","H","O","L","D">>
TRIG_AUTO == <<"T","R","I","G"," ","A","U","T","O">>
TRIG_SGL  == <<"T","R","I","G"," ","S","G","L">>
LOCAL_CMD == <<"L","O","C","A","L">>
ID_Q      == <<"I","D","?">>
NPLC_Q    == <<"N","P","L","C","?">>
NPLC_SP   == <<"N","P","L","C"," ">>
AUTO      == <<"A","U","T","O">>

valid_modes == { <<"D","C","V">>, <<"A","C","V">>, <<"D","C","I">>, <<"A","C","I">>,
                 <<"O","H","M">>, <<"O","H","M","F">>, <<"F","R","E","Q">>,
                 <<"P","E","R">> }

-----------------------------------------------------------------------------
(* The multimeter *)

IdLine == <<"H","P","3","4","5","7","A","\r">>

\* readings the device can produce
MeasLines == { <<"7">>, <<"1",".","2","5","E","-","0","1">> }

\* integration times the device can be set to in this model
NplcValues == {1, 10}

DefaultFunc == <<"D","C","V"," ","A","U","T","O">>

\* PRESET puts the device in a defined state; it is then free to measure
\* until TRIG HOLD arrives
DevicePreset(d) ==
    [mode |-> "ACQUIRING", nplc |-> 1, func |-> DefaultFunc, pending |-> <<>>]

\* What the device does with one command line it received; meas is the reading
\* it takes if the command triggers one.
DeviceExec(d, cmd, meas) ==
    CASE cmd = PRESET    -> DevicePreset(d)
      [] cmd = TRIG_HOLD -> [d EXCEPT !.mode = "HOLD"]
      [] cmd = TRIG_AUTO -> [d EXCEPT !.mode = "ACQUIRING"]
      [] cmd = TRIG_SGL  -> [d EXCEPT !.mode = "HOLD",
                                      !.pending = Append(@, meas)]
      [] cmd = ID_Q      -> [d EXCEPT !.pending = Append(@, IdLine)]
      [] cmd = NPLC_Q    -> [d EXCEPT !.pending = Append(@, Dec(d.nplc))]
      [] HasPrefix(cmd, NPLC_SP)
                         -> LET a == SubSeq(cmd, Len(NPLC_SP) + 1, Len(cmd)) IN
                            IF IsDecimal(a) THEN [d EXCEPT !.nplc = DecVal(a)] ELSE d
      [] FirstWord(cmd) \in valid_modes
                         -> [d EXCEPT !.func = cmd]
      [] OTHER           -> d

-----------------------------------------------------------------------------
(* The VISA transport: pyvisa.ResourceManager, open_resource, and the        *)
(* write / read / query / clear / close of a channel.  pyvisa keeps one      *)
(* resource manager for the VISA library: ResourceManager() hands out the    *)
(* manager that is open, and opens one when none is.  Every channel a        *)
(* manager opens is a handle of its own, and stays open until it is closed   *)
(* or its manager is: rm.close() closes the channels the manager opened and  *)
(* then the manager.  Every operation on the library can fail, the two       *)
(* closes included; closing what is closed already does nothing.  env.fail   *)
(* is the set of the positions, among the transport operations of one call,  *)
(* of the operations that fail; env.meas is the reading the device takes if  *)
(* triggered during the call.  A device that is                              *)
(* acquiring delivers readings on its own, also while a call is under way:   *)
(* env.emit is the position of the transport operation just before which it  *)
(* delivers the reading env.line (0: it delivers none during the call).      *)

\* one transport operation of a call: what it was, on which handle, the line
\* written or read, the error it ended with ("" for none), and the trigger mode
\* the device was in when it began
Ev(w, op, ch, data, err) ==
    [op |-> op, ch |-> ch, data |-> data, err |-> err, mode |-> w.dev.mode]

Log(w, e) == [w EXCEPT !.ops = Append(@, e)]

FailsNow(w, env) == Len(w.ops) + 1 \in env.fail

\* the world once the reading of a free-running device, if one is due before
\* the next transport operation, has arrived
Arrive(w, env) ==
    IF Len(w.ops) + 1 = env.emit /\ w.dev.mode = "ACQUIRING"
    THEN [w EXCEPT !.dev.pending = Append(@, env.line)]
    ELSE w

Ok(w) == [w |-> w, exc |-> "", ret |-> None]
Raise(w, e) == [w |-> w, exc |-> e, ret |-> None]
Return(w, v) == [w |-> w, exc |-> "", ret |-> v]

\* the channel handles that are not open, and the one handed out next
FreeHandles(v) == (1..MaxHandles) \ v.openCh
FreeHandle(v) == CHOOSE h \in FreeHandles(v) : \A g \in FreeHandles(v) : h <= g

\* the handle of the resource manager of the VISA library
LibraryManager == 1

\* pyvisa.ResourceManager(): the manager of the library, opened if it is not
\* open
ResourceManager(w, env) ==
    IF FailsNow(w, env)
    THEN Raise(Log(w, Ev(w, "ResourceManager", 0, <<>>, "VisaIOError")), "VisaIOError")
    ELSE LET w1 == [w EXCEPT !.visa.openRm = @ \cup {LibraryManager}]
         IN Return(Log(w1, Ev(w, "ResourceManager", LibraryManager, <<>>, "")),
                   LibraryManager)

\* rm.open_resource(resource_name): a new channel of the manager
open_resource(w, env) ==
    IF FailsNow(w, env)
    THEN Raise(Log(w, Ev(w, "open_resource", 0, <<>>, "VisaIOError")), "VisaIOError")
    ELSE LET h == FreeHandle(w.visa)
             w1 == [w EXCEPT !.visa.openCh = @ \cup {h}]
         IN Return(Log(w1, Ev(w, "open_resource", h, <<>>, "")), h)

\* inst.timeout, inst.read_termination, inst.write_termination
configure(w, env) ==
    IF FailsNow(w, env)
    THEN Raise(Log(w, Ev(w, "configure", w.inst, <<>>, "VisaIOError")), "VisaIOError")
    ELSE Ok(Log(w, Ev(w, "configure", w.inst, <<>>, "")))

\* inst.write(cmd)
inst_write(w, cmd, env) ==
    LET v == Arrive(w, env) IN
    IF v.inst = 0 THEN Raise(v, "AttributeError")
    ELSE IF v.inst \notin v.visa.openCh
    THEN Raise(Log(v, Ev(v, "write", v.inst, cmd, "InvalidSession")), "InvalidSession")
    ELSE IF FailsNow(v, env)
    THEN Raise(Log(v, Ev(v, "write", v.inst, cmd, "VisaIOError")), "VisaIOError")
    ELSE Ok(Log([v EXCEPT !.dev = DeviceExec(v.dev, cmd, env.meas)],
                Ev(v, "write", v.inst, cmd, "")))

\* inst.read(): the next line waiting, a timeout when there is none
inst_read(w, env) ==
    LET v == Arrive(w, env) IN
    IF v.inst = 0 THEN Raise(v, "AttributeError")
    ELSE IF v.inst \notin v.visa.openCh
    THEN Raise(Log(v, Ev(v, "read", v.inst, <<>>, "InvalidSession")), "InvalidSession")
    ELSE IF FailsNow(v, env) \/ v.dev.pending = <<>>
    THEN Raise(Log(v, Ev(v, "read", v.inst, <<>>, "VisaIOError")), "VisaIOError")
    ELSE LET line == Head(v.dev.pending) IN
         Return(Log([v EXCEPT !.dev.pending = Tail(@)],
                    Ev(v, "read", v.inst, line, "")),
                line)

\* inst.query(cmd): write, then read
inst_query(w, cmd, env) ==
    LET r == inst_write(w, cmd, env) IN
    IF r.exc # "" THEN r ELSE inst_read(r.w, env)

\* inst.clear(): drops what is waiting to be read (the log keeps the lines
\* dropped)
inst_clear(w, env) ==
    LET v == Arrive(w, env) IN
    IF v.inst = 0 THEN Raise(v, "AttributeError")
    ELSE IF v.inst \notin v.visa.openCh
    THEN Raise(Log(v, Ev(v, "clear", v.inst, <<>>, "InvalidSession")), "InvalidSession")
    ELSE IF FailsNow(v, env)
    THEN Raise(Log(v, Ev(v, "clear", v.inst, <<>>, "VisaIOError")), "VisaIOError")
    ELSE Ok(Log([v EXCEPT !.dev.pending = <<>>],
                Ev(v, "clear", v.inst, v.dev.pending, "")))

\* the closing of one channel by the library
close_channel(w, h, env) ==
    IF h \notin w.visa.openCh
    THEN Ok(Log(w, Ev(w, "close", h, <<>>, "")))
    ELSE IF FailsNow(w, env)
    THEN Raise(Log(w, Ev(w, "close", h, <<>>, "VisaIOError")), "VisaIOError")
    ELSE Ok(Log([w EXCEPT !.visa.openCh = @ \ {h}], Ev(w, "close", h, <<>>, "")))

\* inst.close(): releases the handle; closing a channel that is closed
\* already does nothing
inst_close(w, env) == close_channel(w, w.inst, env)

\* the closing, lowest handle first, of the channels chs that a manager
\* opened and that are open still; it ends at the first close that fails
RECURSIVE close_created(_, _, _)
close_created(w, chs, env) ==
    IF chs = {} THEN Ok(w) ELSE
    LET h == CHOOSE c \in chs : \A d \in chs : c <= d
        r == close_channel(w, h, env)
    IN IF r.exc # "" THEN r ELSE close_created(r.w, chs \ {h}, env)

\* rm.close(): closes the channels the manager opened, then the manager;
\* closing a manager that is closed already does nothing
rm_close(w, env) ==
    IF w.rm \notin w.visa.openRm
    THEN Ok(Log(w, Ev(w, "rm_close", w.rm, <<>>, "")))
    ELSE LET r == close_created(w, w.visa.openCh, env) IN
         IF r.exc # "" THEN r
         ELSE IF FailsNow(r.w, env)
         THEN Raise(Log(r.w, Ev(r.w, "rm_close", w.rm, <<>>, "VisaIOError")),
                    "VisaIOError")
         ELSE Ok(Log([r.w EXCEPT !.visa.openRm = @ \ {w.rm}],
                     Ev(r.w, "rm_close", w.rm, <<>>, "")))

-----------------------------------------------------------------------------
(* The methods of HP3457A.  A handle of 0 is None. *)

NotConnected == "Exception: Geraet nicht verbunden"
InvalidMode == "ValueError: Unbekannter Modus"
\* the ValueError of float() on a string that is no number
FloatError == "ValueError: could not convert string to float"

\* stop_measurement as it would be with the trigger command of
\* read_single_value
stop_measurement_sgl(w, env) == inst_write(w, TRIG_SGL, env)

\* stop_measurement as it would be with the trigger command of start_measurement
stop_measurement_auto(w, env) == inst_write(w, TRIG_AUTO, env)

\* stop_measurement: writes TRIG HOLD; it does not look at is_connected
stop_measurement(w, env) == inst_write(w, TRIG_HOLD, env)

\* start_measurement: writes TRIG AUTO; it does not look at is_connected
start_measurement(w, env) == inst_write(w, TRIG_AUTO, env)

\* connect as it would be without the TRIG HOLD after the reset
connect_try_no_hold(w, env) ==
    LET r1 == ResourceManager(w, env) IN
    IF r1.exc # "" THEN r1 ELSE
    LET r2 == open_resource([r1.w EXCEPT !.rm = r1.ret], env) IN
    IF r2.exc # "" THEN r2 ELSE
    LET r3 == configure([r2.w EXCEPT !.inst = r2.ret], env) IN
    IF r3.exc # "" THEN r3 ELSE
    LET r4 == inst_write(r3.w, PRESET, env) IN
    IF r4.exc # "" THEN r4 ELSE
    Ok([r4.w EXCEPT !.is_connected = TRUE])

\* the try block of connect.  Between the two writes the code sleeps for a
\* second (line 43), with the device acquiring after its reset: a reading it
\* delivers meanwhile has arrived when TRIG HOLD is written.
connect_try(w, env) ==
    LET r1 == ResourceManager(w, env) IN
    IF r1.exc # "" THEN r1 ELSE
    LET r2 == open_resource([r1.w EXCEPT !.rm = r1.ret], env) IN
    IF r2.exc # "" THEN r2 ELSE
    LET r3 == configure([r2.w EXCEPT !.inst = r2.ret], env) IN
    IF r3.exc # "" THEN r3 ELSE
    LET r4 == inst_write(r3.w, PRESET, env) IN
    IF r4.exc # "" THEN r4 ELSE
    LET r5 == stop_measurement(r4.w, env) IN
    IF r5.exc # "" THEN r5 ELSE
    Ok([r5.w EXCEPT !.is_connected = TRUE])

\* connect as it would be if the except clause left is_connected alone
connect_keeps_flag(w, env) == connect_try(w, env)

\* connect: on any exception is_connected is set to False and the exception
\* is raised again
connect(w, env) ==
    LET r == connect_try(w, env) IN
    IF r.exc # "" THEN Raise([r.w EXCEPT !.is_connected = FALSE], r.exc)
    ELSE r

\* the LOCAL write of disconnect as it would be outside a try block
disconnect_local_raises(w, env) == inst_write(w, LOCAL_CMD, env)

\* the LOCAL write of disconnect, inside try / except: pass
disconnect_local(w, env) == Ok(inst_write(w, LOCAL_CMD, env).w)

\* disconnect as it would be without rm.close()
disconnect_no_rm_close(w, env) ==
    LET r1 == IF w.inst # 0
              THEN LET l == disconnect_local(w, env) IN
                   IF l.exc # "" THEN l ELSE inst_close(l.w, env)
              ELSE Ok(w)
    IN
    IF r1.exc # "" THEN r1 ELSE
    Ok([r1.w EXCEPT !.is_connected = FALSE])

\* disconnect: the two closes are outside the try block, so an exception of
\* either ends the call before what follows it
disconnect(w, env) ==
    LET r1 == IF w.inst # 0
              THEN LET l == disconnect_local(w, env) IN
                   IF l.exc # "" THEN l ELSE inst_close(l.w, env)
              ELSE Ok(w)
    IN
    IF r1.exc # "" THEN r1 ELSE
    LET r2 == IF r1.w.rm # 0 THEN rm_close(r1.w, env) ELSE r1 IN
    IF r2.exc # "" THEN r2 ELSE
    Ok([r2.w EXCEPT !.is_connected = FALSE])

\* read_id as it would be without inst.clear()
read_id_no_clear(w, env) ==
    IF ~w.is_connected THEN Raise(w, NotConnected) ELSE
    LET r2 == inst_query(w, ID_Q, env) IN
    IF r2.exc # "" THEN r2 ELSE
    Return(r2.w, PyStr(strip(r2.ret)))

\* read_id as it would be if it forced HOLD like get_nplc does
read_id_with_hold(w, env) ==
    IF ~w.is_connected THEN Raise(w, NotConnected) ELSE
    LET r0 == stop_measurement(w, env) IN
    IF r0.exc # "" THEN r0 ELSE
    LET r1 == inst_clear(r0.w, env) IN
    IF r1.exc # "" THEN r1 ELSE
    LET r2 == inst_query(r1.w, ID_Q, env) IN
    IF r2.exc # "" THEN r2 ELSE
    Return(r2.w, PyStr(strip(r2.ret)))

\* read_id.  Nothing stops a device that is acquiring: a reading can arrive
\* between the clear and the ID?, or between the ID? and the read.
read_id(w, env) ==
    IF ~w.is_connected THEN Raise(w, NotConnected) ELSE
    LET r1 == inst_clear(w, env) IN
    IF r1.exc # "" THEN r1 ELSE
    LET r2 == inst_query(r1.w, ID_Q, env) IN
    IF r2.exc # "" THEN r2 ELSE
    Return(r2.w, PyStr(strip(r2.ret)))

\* setup_measurement as it would be without the check of the mode
setup_measurement_unchecked(w, mode, range_val, env) ==
    IF ~w.is_connected THEN Raise(w, NotConnected) ELSE
    LET rv == IF range_val = Omitted THEN PyStr(AUTO) ELSE range_val
        cmd == upper(mode) \o <<" ">> \o format(rv)
    IN inst_write(w, cmd, env)

\* setup_measurement as it would be without mode.upper()
setup_measurement_no_upper(w, mode, range_val, env) ==
    IF ~w.is_connected THEN Raise(w, NotConnected) ELSE
    LET rv == IF range_val = Omitted THEN PyStr(AUTO) ELSE range_val IN
    IF mode \notin valid_modes THEN Raise(w, InvalidMode) ELSE
    LET cmd == mode \o <<" ">> \o format(rv) IN
    inst_write(w, cmd, env)

\* setup_measurement(mode, range_val)
setup_measurement(w, mode, range_val, env) ==
    IF ~w.is_connected THEN Raise(w, NotConnected) ELSE
    LET rv == IF range_val = Omitted THEN PyStr(AUTO) ELSE range_val
        m == upper(mode)
    IN
    IF m \notin valid_modes THEN Raise(w, InvalidMode) ELSE
    LET cmd == m \o <<" ">> \o format(rv) IN
    inst_write(w, cmd, env)

\* set_nplc as it would be without the stop_measurement before the command
set_nplc_no_hold(w, plc, env) ==
    IF ~w.is_connected THEN Raise(w, NotConnected) ELSE
    inst_write(w, NPLC_SP \o format(plc), env)

\* set_nplc as it would be if a failed TRIG HOLD were ignored
set_nplc_ignores_failure(w, plc, env) ==
    IF ~w.is_connected THEN Raise(w, NotConnected) ELSE
    LET r1 == stop_measurement(w, env) IN
    inst_write(r1.w, NPLC_SP \o format(plc), env)

\* set_nplc(plc)
set_nplc(w, plc, env) ==
    IF ~w.is_connected THEN Raise(w, NotConnected) ELSE
    LET r1 == stop_measurement(w, env) IN
    IF r1.exc # "" THEN r1 ELSE
    inst_write(r1.w, NPLC_SP \o format(plc), env)

\* get_nplc as it would be if a transport failure marked the session as
\* disconnected
get_nplc_marks_disconnected(w, env) ==
    IF ~w.is_connected THEN Raise(w, NotConnected) ELSE
    LET r1 == stop_measurement(w, env) IN
    IF r1.exc # "" THEN Raise([r1.w EXCEPT !.is_connected = FALSE], r1.exc) ELSE
    LET r2 == inst_query(r1.w, NPLC_Q, env) IN
    IF r2.exc # "" THEN Raise([r2.w EXCEPT !.is_connected = FALSE], r2.exc) ELSE
    LET f == float(r2.ret) IN
    IF f.ok THEN Return(r2.w, f.v) ELSE Raise(r2.w, FloatError)

\* get_nplc as it would be without the stop_measurement before the query
get_nplc_no_hold(w, env) ==
    IF ~w.is_connected THEN Raise(w, NotConnected) ELSE
    LET r2 == inst_query(w, NPLC_Q, env) IN
    IF r2.exc # "" THEN r2 ELSE
    LET f == float(r2.ret) IN
    IF f.ok THEN Return(r2.w, f.v) ELSE Raise(r2.w, FloatError)

\* get_nplc
get_nplc(w, env) ==
    IF ~w.is_connected THEN Raise(w, NotConnected) ELSE
    LET r1 == stop_measurement(w, env) IN
    IF r1.exc # "" THEN r1 ELSE
    LET r2 == inst_query(r1.w, NPLC_Q, env) IN
    IF r2.exc # "" THEN r2 ELSE
    LET f == float(r2.ret) IN
    IF f.ok THEN Return(r2.w, f.v) ELSE Raise(r2.w, FloatError)

\* read_single_value as it would be if it put the device back in HOLD
read_single_value_rehold(w, env) ==
    IF ~w.is_connected THEN Raise(w, NotConnected) ELSE
    LET r1 == inst_write(w, TRIG_SGL, env) IN
    IF r1.exc # "" THEN r1 ELSE
    LET r2 == inst_read(r1.w, env) IN
    IF r2.exc # "" THEN r2 ELSE
    LET r3 == stop_measurement(r2.w, env)
        f == float(r2.ret)
    IN
    IF r3.exc # "" THEN r3 ELSE
    IF f.ok THEN Return(r3.w, f.v) ELSE Raise(r3.w, FloatError)

\* read_single_value as it would be if an unreadable line counted as 0.0
read_single_value_zero(w, env) ==
    IF ~w.is_connected THEN Raise(w, NotConnected) ELSE
    LET r1 == inst_write(w, TRIG_SGL, env) IN
    IF r1.exc # "" THEN r1 ELSE
    LET r2 == inst_read(r1.w, env) IN
    IF r2.exc # "" THEN r2 ELSE
    LET f == float(r2.ret) IN
    IF f.ok THEN Return(r2.w, f.v) ELSE Return(r2.w, PyFloat(FALSE, <<>>, 0))

\* read_single_value
read_single_value(w, env) ==
    IF ~w.is_connected THEN Raise(w, NotConnected) ELSE
    LET r1 == inst_write(w, TRIG_SGL, env) IN
    IF r1.exc # "" THEN r1 ELSE
    LET r2 == inst_read(r1.w, env) IN
    IF r2.exc # "" THEN r2 ELSE
    LET f == float(r2.ret) IN
    IF f.ok THEN Return(r2.w, f.v) ELSE Raise(r2.w, FloatError)

-----------------------------------------------------------------------------
(* The state machine *)

\* the world a call starts in: the current state, with an empty channel log
World == [is_connected |-> is_connected, inst |-> inst, rm |-> rm,
          visa |-> visa, dev |-> dev, ops |-> <<>>]

\* the state after a call that ended as r
Apply(name, args, r) ==
    /\ Len(r.w.dev.pending) <= MaxPending
    /\ is_connected' = r.w.is_connected
    /\ inst' = r.w.inst
    /\ rm' = r.w.rm
    /\ visa' = r.w.visa
    /\ dev' = r.w.dev
    /\ last' = [op |-> name, args |-> args, exc |-> r.exc, ret |-> r.ret,
                ops |-> r.w.ops]

\* no operation fails, or one of the first n does
One(n) == {{}} \cup {{i} : i \in 1..n}
\* what the transport and the device can do during one call with at most n
\* transport operations, which ends at the first that fails
Envs(n) == [fail : One(n), meas : {<<>>}, emit : {0}, line : {<<>>}]
\* the same for a call that triggers a reading
TrigEnvs(n) == [fail : One(n), meas : MeasLines, emit : {0}, line : {<<>>}]
\* the same for disconnect, which goes on after a LOCAL write that failed:
\* any of its operations can fail
AnyEnvs(n) == [fail : SUBSET (1..n), meas : {<<>>}, emit : {0}, line : {<<>>}]
\* the same for a call during which the device can be acquiring while the
\* program waits: connect, during the sleep between PRESET and TRIG HOLD, and
\* read_id, between its clear and its ID?.  at is the position of the
\* operation before which the reading arrives; a failure before it leaves the
\* arrival without effect.  Every other method has one transport operation
\* only, or begins with TRIG HOLD or TRIG SGL, after which the device delivers
\* nothing on its own; a reading that arrives before the first operation of a
\* call, before a clear or a PRESET, or after the last write, is one of
\* DeviceMeasure before or after the call.
FreeRunEnvs(n, at) ==
    Envs(n) \cup [fail : {{}} \cup {{i} : i \in at..n}, meas : {<<>>}, emit : {at},
                  line : MeasLines]

\* arguments the calls are made with
\* among them a mode written in both letter cases and with the dotless i,
\* whose upper case is I
ModeArgs == { <<"d","c","v">>, <<"a","C","U+0131">>, <<"x","y","z">> }
RangeArgs == { Omitted, PyInt(3) }
PlcArgs == { PyInt(n) : n \in NplcValues }

\* a new HP3457A object, and a device in some state
NewSession ==
    /\ is_connected = FALSE
    /\ inst = 0
    /\ rm = 0
    /\ visa = [openCh |-> {}, openRm |-> {}]
    /\ dev \in [mode : {"HOLD", "ACQUIRING"}, nplc : NplcValues,
                func : {DefaultFunc}, pending : {<<>>}]
    /\ last = [op |-> "init", args |-> <<>>, exc |-> "", ret |-> None, ops |-> <<>>]

\* no script: the methods are called in any order
NoRun == [prog |-> "none", called |-> <<>>, raised |-> "", log |-> <<>>]

Init == NewSession /\ run = NoRun /\ pc = 0

Connect ==
    /\ FreeHandles(visa) # {}
    /\ \E env \in FreeRunEnvs(5, 5) : Apply("connect", <<>>, connect(World, env))
    /\ UNCHANGED <<run, pc>>

Disconnect ==
    /\ \E env \in AnyEnvs(MaxHandles + 2) :
           Apply("disconnect", <<>>, disconnect(World, env))
    /\ UNCHANGED <<run, pc>>

ReadId ==
    /\ \E env \in FreeRunEnvs(3, 2) : Apply("read_id", <<>>, read_id(World, env))
    /\ UNCHANGED <<run, pc>>

SetupMeasurement ==
    /\ \E mode \in ModeArgs, range_val \in RangeArgs, env \in Envs(1) :
           Apply("setup_measurement", <<mode, range_val>>,
                 setup_measurement(World, mode, range_val, env))
    /\ UNCHANGED <<run, pc>>

SetNplc ==
    /\ \E plc \in PlcArgs, env \in Envs(2) :
           Apply("set_nplc", <<plc>>, set_nplc(World, plc, env))
    /\ UNCHANGED <<run, pc>>

GetNplc ==
    /\ \E env \in Envs(3) : Apply("get_nplc", <<>>, get_nplc(World, env))
    /\ UNCHANGED <<run, pc>>

StartMeasurement ==
    /\ \E env \in Envs(1) :
           Apply("start_measurement", <<>>, start_measurement(World, env))
    /\ UNCHANGED <<run, pc>>

StopMeasurement ==
    /\ \E env \in Envs(1) :
           Apply("stop_measurement", <<>>, stop_measurement(World, env))
    /\ UNCHANGED <<run, pc>>

ReadSingleValue ==
    /\ \E env \in TrigEnvs(2) :
           Apply("read_single_value", <<>>, read_single_value(World, env))
    /\ UNCHANGED <<run, pc>>

\* a device that is acquiring takes a reading, which waits to be read
DeviceMeasure ==
    /\ dev.mode = "ACQUIRING"
    /\ Len(dev.pending) < MaxPending
    /\ \E m \in MeasLines : dev' = [dev EXCEPT !.pending = Append(@, m)]
    /\ last' = [op |-> "device", args |-> <<>>, exc |-> "", ret |-> None,
                ops |-> <<>>]
    /\ UNCHANGED <<is_connected, inst, rm, visa, run, pc>>

Next ==
    \/ Connect
    \/ Disconnect
    \/ ReadId
    \/ SetupMeasurement
    \/ SetNplc
    \/ GetNplc
    \/ StartMeasurement
    \/ StopMeasurement
    \/ ReadSingleValue
    \/ DeviceMeasure

Spec == Init /\ [][Next]_vars

-----------------------------------------------------------------------------
(* Scripts: the demonstration under __main__, and the scenario connect,     *)
(* setup_measurement("OHM"), set_nplc(1), read_single_value() that is the   *)
(* last part of it, run on a new session.                                   *)

Call(op, args) == [op |-> op, args |-> args]

\* the try block of the demonstration, then the disconnect of its finally
DemoProgram ==
    << Call("connect", <<>>),
       Call("read_id", <<>>),
       Call("setup_measurement", << <<"D","C","V">>, PyStr(AUTO) >>),
       Call("set_nplc", << PyInt(10) >>),
       Call("get_nplc", <<>>),
       Call("read_single_value", <<>>),
       Call("read_single_value", <<>>),
       Call("read_single_value", <<>>),
       Call("setup_measurement", << <<"O","H","M">>, Omitted >>),
       Call("set_nplc", << PyInt(1) >>),
       Call("read_single_value", <<>>),
       Call("disconnect", <<>>) >>

ScenarioProgram ==
    << Call("connect", <<>>),
       Call("setup_measurement", << <<"O","H","M">>, Omitted >>),
       Call("set_nplc", << PyInt(1) >>),
       Call("read_single_value", <<>>) >>

Program(prog) == IF prog = "demo" THEN DemoProgram ELSE ScenarioProgram

Finished == pc > Len(Program(run.prog))
Cur == Program(run.prog)[pc]

\* where a script goes on after a call that raised: the demonstration catches
\* every exception of its try block and goes to its finally; nothing catches
\* an exception in the finally or in the scenario
AfterRaise(prog, at) ==
    IF prog = "demo" /\ at < Len(DemoProgram) THEN Len(DemoProgram)
    ELSE Len(Program(prog)) + 1

\* the state after a call of the script that ended as r
RunApply(name, args, r) ==
    /\ Apply(name, args, r)
    /\ pc' = IF r.exc = "" THEN pc + 1 ELSE AfterRaise(run.prog, pc)
    /\ run' = [run EXCEPT
                 !.called = Append(@, name),
                 !.raised = IF r.exc # "" /\ AfterRaise(run.prog, pc) > Len(Program(run.prog))
                            THEN r.exc ELSE @,
                 !.log = @ \o r.w.ops]

RunInit ==
    /\ NewSession
    /\ run \in [prog : {"demo", "scenario"}, called : {<<>>},
                raised : {""}, log : {<<>>}]
    /\ pc = 1

At(op) == ~Finished /\ Cur.op = op

RunConnect ==
    /\ At("connect")
    /\ \E env \in FreeRunEnvs(5, 5) : \E r \in {connect(World, env)} :
           RunApply("connect", <<>>, r)

RunReadId ==
    /\ At("read_id")
    /\ \E env \in FreeRunEnvs(3, 2) : \E r \in {read_id(World, env)} :
           RunApply("read_id", <<>>, r)

RunSetupMeasurement ==
    /\ At("setup_measurement")
    /\ \E env \in Envs(1) :
           \E r \in {setup_measurement(World, Cur.args[1], Cur.args[2], env)} :
               RunApply("setup_measurement", Cur.args, r)

RunSetNplc ==
    /\ At("set_nplc")
    /\ \E env \in Envs(2) : \E r \in {set_nplc(World, Cur.args[1], env)} :
           RunApply("set_nplc", Cur.args, r)

RunGetNplc ==
    /\ At("get_nplc")
    /\ \E env \in Envs(3) : \E r \in {get_nplc(World, env)} :
           RunApply("get_nplc", <<>>, r)

RunReadSingleValue ==
    /\ At("read_single_value")
    /\ \E env \in TrigEnvs(2) : \E r \in {read_single_value(World, env)} :
           RunApply("read_single_value", <<>>, r)

RunDisconnect ==
    /\ At("disconnect")
    /\ \E env \in AnyEnvs(3) : \E r \in {disconnect(World, env)} :
           RunApply("disconnect", <<>>, r)

\* the next statement of the script
RunStep ==
    \/ RunConnect
    \/ RunReadId
    \/ RunSetupMeasurement
    \/ RunSetNplc
    \/ RunGetNplc
    \/ RunReadSingleValue
    \/ RunDisconnect

RunNext == RunStep \/ DeviceMeasure

\* the script moves on to another statement.  A step of RunNext is one of
\* RunStep exactly when it changes pc, and RunStep is possible whenever the
\* script is not finished: every method is defined on every state, and the
\* call in which the first transport operation fails leaves no line waiting.
Advance ==
    /\ ~Finished
    /\ pc' \in (1 .. Len(Program(run.prog)) + 1) \ {pc}

\* a script is sequential and every call returns or raises: the next
\* statement is always reached
RunSpec == RunInit /\ [][RunNext]_vars /\ WF_pc(Advance)

-----------------------------------------------------------------------------
(* Properties *)

IsWrite(e) == e.op = "write"
\* the writes a call attempted, and the command lines of a sequence of events
Writes(ops) == SelectSeq(ops, IsWrite)
Lines(evs) == [i \in 1..Len(evs) |-> evs[i].data]
AllOk(evs) == \A i \in 1..Len(evs) : evs[i].err = ""
Failed(ops, kinds) == \E i \in 1..Len(ops) : ops[i].op \in kinds /\ ops[i].err # ""

GuardedOps == {"read_id", "setup_measurement", "set_nplc", "get_nplc",
               "start_measurement", "stop_measurement", "read_single_value"}

\* C1: every operation other than connect and disconnect (read_id,
\* setup_measurement, set_nplc, get_nplc, start_measurement, stop_measurement,
\* read_single_value) that is invoked while is_connected is false fails with
\* the not-connected error.
C1_NotConnectedFails ==
    [][(~is_connected /\ last'.op \in GuardedOps) => last'.exc = NotConnected]_vars

\* C2: whenever connect succeeds, the commands written during that connect are
\* exactly PRESET followed by TRIG HOLD, both written without error to the
\* channel opened by this connect, and is_connected is true after connect only
\* when both were written.
C2_ConnectWritesResetThenHold ==
    (last.op = "connect" /\ (last.exc = "" \/ is_connected)) =>
        /\ is_connected
        /\ Lines(Writes(last.ops)) = <<PRESET, TRIG_HOLD>>
        /\ AllOk(Writes(last.ops))
        /\ \E i \in 1..Len(last.ops) :
              /\ last.ops[i].op = "open_resource"
              /\ last.ops[i].ch = inst
              /\ \A j \in 1..Len(last.ops) :
                    last.ops[j].op = "write" => (j > i /\ last.ops[j].ch = inst)

C2_Witness ==
    /\ last.op = "connect" /\ last.exc = "" /\ is_connected
    /\ Len(Writes(last.ops)) = 2
    /\ Cardinality(visa.openCh) = 2

\* C3: if during connect the resource manager or the channel cannot be opened,
\* or PRESET or TRIG HOLD cannot be written, connect raises and is_connected
\* is false when it returns.
C3_FailedConnectRaises ==
    (last.op = "connect"
        /\ Failed(last.ops, {"ResourceManager", "open_resource", "write"})) =>
        (last.exc # "" /\ ~is_connected)

C3_Witness ==
    /\ last.op = "connect" /\ last.exc = "VisaIOError" /\ ~is_connected
    /\ \E i \in 1..Len(last.ops) :
          /\ last.ops[i].op = "write" /\ last.ops[i].data = TRIG_HOLD
          /\ last.ops[i].err # ""
    /\ Cardinality(visa.openCh) = 2

IsClose(e) == e.op \in {"close", "rm_close"}

\* C4: disconnect never raises and always leaves is_connected false, whatever
\* state the session is in: never connected, after a connect that failed
\* partway, connected, or disconnected before.
C4_DisconnectNeverRaises ==
    last.op = "disconnect" => (last.exc = "" /\ ~is_connected)

LocalFailed == last.op = "disconnect" /\ Failed(last.ops, {"write"})

IsNplcCmd(c) == c = NPLC_Q \/ HasPrefix(c, NPLC_SP)

\* C7: in a connected session get_nplc and set_nplc write TRIG HOLD as the
\* command immediately before their NPLC command (NPLC? for get_nplc,
\* NPLC <value> for set_nplc), with no channel operation in between, whatever
\* mode the device was in; a call that ends without error has written both.
C7_HoldRightBeforeNplc ==
    (last.op \in {"get_nplc", "set_nplc"}) =>
        /\ \A i \in 1..Len(last.ops) :
              (last.ops[i].op = "write" /\ IsNplcCmd(last.ops[i].data)) =>
                  /\ i > 1
                  /\ last.ops[i - 1].op = "write"
                  /\ last.ops[i - 1].data = TRIG_HOLD
                  /\ last.ops[i - 1].err = ""
                  /\ last.ops[i].data =
                        IF last.op = "get_nplc" THEN NPLC_Q
                        ELSE NPLC_SP \o Dec(last.args[1].v)
        /\ last.exc = "" =>
              \E i \in 1..Len(last.ops) :
                  last.ops[i].op = "write" /\ IsNplcCmd(last.ops[i].data)
                      /\ last.ops[i].err = ""

C7_Witness ==
    /\ last.op = "get_nplc" /\ last.exc = ""
    /\ last.ops[1].mode = "ACQUIRING"
    /\ last.ops[2].data = NPLC_Q

\* C8 as claimed: whenever ID? is sent by read_id or NPLC? by get_nplc, the
\* device is in HOLD mode.
C8_QueriesSentInHold ==
    (last.op \in {"read_id", "get_nplc"}) =>
        \A i \in 1..Len(last.ops) :
            (last.ops[i].op = "write" /\ last.ops[i].data \in {ID_Q, NPLC_Q}
                /\ last.ops[i].err = "") => last.ops[i].mode = "HOLD"

\* C8 as amended: whenever NPLC? is sent by get_nplc the device is in HOLD
\* mode, also after a start_measurement without a stop_measurement; read_id
\* sends ID? in the mode the device was in when read_id was called.
C8_NplcQuerySentInHold ==
    /\ last.op = "get_nplc" =>
          \A i \in 1..Len(last.ops) :
              (last.ops[i].op = "write" /\ last.ops[i].data = NPLC_Q
                  /\ last.ops[i].err = "") => last.ops[i].mode = "HOLD"
    /\ last.op = "read_id" =>
          \A i \in 1..Len(last.ops) :
              (last.ops[i].op = "write" /\ last.ops[i].data = ID_Q)
                  => last.ops[i].mode = last.ops[1].mode

\* get_nplc called on an acquiring device with a reading waiting: NPLC? is
\* sent in HOLD mode, and the line read back is that reading
C8_Witness ==
    /\ last.op = "get_nplc"
    /\ Len(last.ops) = 3
    /\ last.ops[1].mode = "ACQUIRING"
    /\ last.ops[2].data = NPLC_Q /\ last.ops[2].err = "" /\ last.ops[2].mode = "HOLD"
    /\ last.ops[3].op = "read" /\ last.ops[3].data \in MeasLines

\* mode is one of the valid modes when letter case is ignored: character by
\* character the two have the same upper case
SameIgnoringCase(a, b) ==
    Len(a) = Len(b) /\ \A i \in 1..Len(a) : UpperChar(a[i]) = UpperChar(b[i])
ValidIgnoringCase(mode) == \E v \in valid_modes : SameIgnoringCase(mode, v)

\* C9: setup_measurement on a connected session with a mode that, ignoring
\* letter case, is not one of the valid modes fails with the invalid-mode
\* error, performs no channel operation, and leaves the device as it was.
C9_InvalidModeRejected ==
    [][(is_connected /\ last'.op = "setup_measurement"
            /\ ~ValidIgnoringCase(last'.args[1])) =>
        (last'.exc = InvalidMode /\ last'.ops = <<>> /\ dev' = dev)]_vars

C9_Witness ==
    /\ last.op = "setup_measurement" /\ last.exc = InvalidMode
    /\ last.args[1] = <<"x","y","z">>
    /\ is_connected

\* the text of the range argument: AUTO when none was given
RangeText(r) == IF r = Omitted THEN <<"A","U","T","O">> ELSE format(r)

\* C10: setup_measurement on a connected session with a mode that is valid in
\* any letter case performs exactly one channel operation, the write of the
\* upper-cased mode, a blank and the range, the range being AUTO when none was
\* given; it raises only if that write fails.
C10_ValidModeWritesOneCommand ==
    (last.op = "setup_measurement" /\ is_connected
        /\ ValidIgnoringCase(last.args[1])) =>
        /\ Len(last.ops) = 1
        /\ last.ops[1].op = "write"
        /\ \E v \in valid_modes :
              /\ SameIgnoringCase(last.args[1], v)
              /\ last.ops[1].data = v \o <<" ">> \o RangeText(last.args[2])
        /\ last.exc = last.ops[1].err

C10_Witness ==
    /\ last.op = "setup_measurement" /\ last.exc = "" /\ is_connected
    /\ last.args = << <<"d","c","v">>, Omitted >>
    /\ last.ops[1].data = <<"D","C","V"," ","A","U","T","O">>
    /\ dev.func = <<"D","C","V"," ","A","U","T","O">>

\* C11: read_single_value on a connected session writes exactly one command,
\* TRIG SGL, then reads exactly one line, in that order, writes nothing after
\* the read, and returns the value parsed from the line it read.
C11_SingleTriggerThenOneRead ==
    (last.op = "read_single_value" /\ is_connected) =>
        /\ Len(last.ops) \in {1, 2}
        /\ last.ops[1].op = "write" /\ last.ops[1].data = TRIG_SGL
        /\ Len(last.ops) = 2 =>
              (last.ops[1].err = "" /\ last.ops[2].op = "read")
        /\ last.exc = "" =>
              /\ Len(last.ops) = 2 /\ last.ops[2].err = ""
              /\ float(last.ops[2].data) = [ok |-> TRUE, v |-> last.ret]
              /\ last.ops[2].data = <<"1",".","2","5","E","-","0","1">>
                    => last.ret = PyFloat(FALSE, <<1>>, 0 - 3)
              /\ last.ops[2].data = <<"7">> => last.ret = PyFloat(FALSE, <<1, 1, 1>>, 0)

C11_Witness ==
    /\ last.op = "read_single_value" /\ is_connected /\ last.exc = ""
    /\ Len(last.ops) = 2
    /\ last.ops[2].data = <<"1",".","2","5","E","-","0","1">>
    /\ last.ret = PyFloat(FALSE, <<1>>, 0 - 3)

\* the line a call read, when its last transport operation is a read that
\* succeeded
ReadLine(ops) == ops[Len(ops)].data
HasReadLine(ops) ==
    ops # <<>> /\ ops[Len(ops)].op = "read" /\ ops[Len(ops)].err = ""

\* C12: when the line read back is not numeric, read_single_value and
\* get_nplc raise the error of the failed conversion and return no value.
C12_NonNumericLineRaises ==
    (last.op \in {"read_single_value", "get_nplc"} /\ HasReadLine(last.ops)) =>
        /\ ~float(ReadLine(last.ops)).ok => (last.exc = FloatError /\ last.ret = None)
        /\ ReadLine(last.ops) = IdLine => last.exc = FloatError
        /\ last.exc = FloatError => ReadLine(last.ops) \notin MeasLines

\* get_nplc reads the answer to an ID? that read_id left unread
C12_Witness ==
    /\ last.op = "get_nplc" /\ last.exc = FloatError /\ last.ret = None
    /\ HasReadLine(last.ops) /\ ReadLine(last.ops) = IdLine

QuietOps == {"read_id", "setup_measurement", "set_nplc", "get_nplc"}

\* C13 as claimed: on a connected session read_id, setup_measurement, set_nplc
\* and get_nplc leave the device mode exactly as it was before the call.
C13_ModeChangesOnlyByTrigger ==
    [][(is_connected /\ last'.op \in QuietOps) => dev'.mode = dev.mode]_vars

\* C13 as amended: on a connected session read_id and setup_measurement leave
\* the device mode as it was; set_nplc and get_nplc put the device in HOLD
\* (their TRIG HOLD write) and leave the mode as it was only if that write
\* fails.
C13_ModeChangesOnlyByHoldOrTrigger ==
    [][(is_connected /\ last'.op \in QuietOps) =>
        IF last'.op \in {"read_id", "setup_measurement"}
        THEN dev'.mode = dev.mode
        ELSE /\ last'.ops # <<>>
             /\ last'.ops[1].data = TRIG_HOLD
             /\ dev'.mode = IF last'.ops[1].err = "" THEN "HOLD" ELSE dev.mode]_vars

\* set_nplc found the device acquiring and left it in HOLD
C13_Witness ==
    /\ last.op = "set_nplc" /\ is_connected /\ last.exc = ""
    /\ last.ops[1].mode = "ACQUIRING"
    /\ dev.mode = "HOLD"

IsIo(e) == e.op \in {"write", "read", "clear"}

\* no command line is written twice in one call
NoRepeat(ops) ==
    \A i, j \in 1..Len(ops) :
        (i < j /\ ops[i].op = "write" /\ ops[j].op = "write")
            => ops[i].data # ops[j].data

\* C16 as claimed: no operation retries; each command is written at most once
\* in a call, and when a write or a read fails the call ends at once with
\* that error, without a further write or read.
C16_FailureEndsEveryCall ==
    /\ NoRepeat(last.ops)
    /\ \A i \in 1..Len(last.ops) :
          (last.ops[i].op \in {"write", "read"} /\ last.ops[i].err # "") =>
              /\ last.exc = last.ops[i].err
              /\ \A j \in (i + 1)..Len(last.ops) : ~IsIo(last.ops[j])

\* C16 as amended: each command is written at most once in a call; when a
\* write, read or clear fails no further write, read or clear follows in that
\* call; every call but disconnect ends there with that error, while
\* disconnect goes on to close the handles, and returns normally unless a
\* close fails, which ends it at once with the error of the close.
C16_FailureEndsCallExceptDisconnect ==
    /\ NoRepeat(last.ops)
    /\ \A i \in 1..Len(last.ops) :
          /\ (IsIo(last.ops[i]) /\ last.ops[i].err # "") =>
                /\ \A j \in (i + 1)..Len(last.ops) : ~IsIo(last.ops[j])
                /\ IF last.op = "disconnect"
                   THEN /\ i < Len(last.ops)
                        /\ last.exc = "" \/ ~AllOk(SubSeq(last.ops, i + 1, Len(last.ops)))
                   ELSE last.exc = last.ops[i].err /\ i = Len(last.ops)
          /\ (IsClose(last.ops[i]) /\ last.ops[i].err # "") =>
                (last.exc = last.ops[i].err /\ i = Len(last.ops))

\* set_nplc whose TRIG HOLD write failed: NPLC <value> is not sent
C16_Witness ==
    /\ last.op = "set_nplc" /\ is_connected
    /\ Len(last.ops) = 1
    /\ last.ops[1].data = TRIG_HOLD /\ last.ops[1].err = "VisaIOError"
    /\ last.exc = "VisaIOError"

\* a call during which the transport does not fail
NoFail == [fail |-> {}, meas |-> <<>>, emit |-> 0, line |-> <<>>]
\* the session and the device, without the channel log
Effect(w) == <<w.is_connected, w.inst, w.rm, w.visa, w.dev>>

\* C17: on a connected session stop_measurement called twice in a row leaves
\* the device (in HOLD) and the session exactly as one call leaves them,
\* whatever the device mode was before.
C17_StopIsIdempotent ==
    LET once == stop_measurement(World, NoFail)
        twice == stop_measurement([once.w EXCEPT !.ops = <<>>], NoFail)
    IN (is_connected /\ once.exc = "") =>
          /\ once.w.dev.mode = "HOLD"
          /\ twice.exc = ""
          /\ Effect(twice.w) = Effect(once.w)
          /\ <<once.w.is_connected, once.w.inst>> = <<is_connected, inst>>

\* stop_measurement was called on a device that was in HOLD already, with a
\* line waiting
C17_Witness ==
    /\ last.op = "stop_measurement" /\ is_connected /\ last.exc = ""
    /\ last.ops[1].mode = "HOLD"
    /\ dev.pending # <<>>

\* C18 as claimed: read_id on a connected session clears the lines waiting
\* before it sends ID?; a read_id that returns has discarded every line that
\* was waiting before the call and returns the stripped answer to its ID?.
C18_ReadIdClearsFirst ==
    (last.op = "read_id" /\ is_connected) =>
        /\ last.ops[1].op = "clear"
        /\ \A i \in 2..Len(last.ops) : last.ops[i].op # "clear"
        /\ last.exc = "" =>
              /\ Len(last.ops) = 3
              /\ last.ops[2].op = "write" /\ last.ops[2].data = ID_Q
              /\ last.ops[3].op = "read" /\ last.ops[3].data = IdLine
              /\ last.ret = PyStr(<<"H","P","3","4","5","7","A">>)
              /\ dev.pending = <<>>

\* C18 as amended: the first channel operation of read_id on a connected
\* session is the clear, and it is the only one; a read_id that returns has
\* then written ID? and read one line, which it returns stripped.  With the
\* device in HOLD that line is the answer to ID? and nothing is left waiting;
\* any other line read is a reading that a device in free run delivered after
\* the clear, and the answer to ID? is then what is left waiting.
C18_ReadIdClearsThenQueries ==
    (last.op = "read_id" /\ is_connected) =>
        /\ last.ops[1].op = "clear"
        /\ \A i \in 2..Len(last.ops) : last.ops[i].op # "clear"
        /\ last.exc = "" =>
              /\ Len(last.ops) = 3
              /\ last.ops[2].op = "write" /\ last.ops[2].data = ID_Q
              /\ last.ops[3].op = "read"
              /\ last.ret = PyStr(strip(last.ops[3].data))
              /\ last.ops[1].mode = "HOLD" =>
                    /\ last.ops[3].data = IdLine
                    /\ dev.pending = <<>>
              /\ last.ops[3].data # IdLine =>
                    /\ last.ops[1].mode = "ACQUIRING"
                    /\ last.ops[3].data \in MeasLines
                    /\ dev.pending = <<IdLine>>

\* a reading was waiting when read_id was called and was cleared; the device,
\* in free run, delivered another before ID? was written, and read_id
\* returned that one
C18_Witness ==
    /\ last.op = "read_id" /\ is_connected /\ last.exc = ""
    /\ last.ops[1].op = "clear" /\ last.ops[1].data # <<>>
    /\ last.ops[1].data[1] \in MeasLines
    /\ last.ret = PyStr(<<"7">>)
    /\ dev.pending = <<IdLine>>

\* C19: read_id, setup_measurement, set_nplc, get_nplc, start_measurement,
\* stop_measurement and read_single_value leave is_connected, inst and rm as
\* they were, whether they return or raise.
C19_OnlyConnectAndDisconnectChangeSession ==
    [][last'.op \in GuardedOps =>
        (is_connected' = is_connected /\ inst' = inst /\ rm' = rm)]_vars

\* a session that is still connected after a call failed in the transport
C19_Witness ==
    /\ last.op = "get_nplc" /\ last.exc = "VisaIOError"
    /\ is_connected /\ inst \in visa.openCh

\* a float and an int that are the same number
NumEq(f, n) == f = Normal(FALSE, IntBits(n.v), 0)

\* C20: on a connected session get_nplc called right after a set_nplc(x) that
\* returned returns x, whatever was called before the two (the case of the
\* round trip with nothing between the two calls).
C20_NplcRoundTrip ==
    [][(is_connected /\ last.op = "set_nplc" /\ last.exc = ""
            /\ last'.op = "get_nplc" /\ last'.exc = "") =>
        NumEq(last'.ret, last.args[1])]_vars

IoEvents(log) == SelectSeq(log, IsIo)
Kinds(evs) == [i \in 1..Len(evs) |-> evs[i].op]

\* C14: when connect, setup_measurement("OHM"), set_nplc(1) and
\* read_single_value() are called in this order and none fails, the channel
\* log after the two commands of connect is, in this order and with nothing
\* else: OHM AUTO, TRIG HOLD, NPLC 1, TRIG SGL written, and one line read,
\* whose parsed value is what read_single_value returned.
C14_ScenarioChannelLog ==
    (run.prog = "scenario" /\ Finished /\ run.raised = "") =>
        LET io == IoEvents(run.log)
            line == io[Len(io)].data
        IN /\ Kinds(io) = <<"write", "write", "write", "write", "write", "write", "read">>
           /\ AllOk(io)
           /\ SubSeq(Lines(io), 1, 6) =
                 << PRESET, TRIG_HOLD,
                    <<"O","H","M"," ","A","U","T","O">>,
                    <<"T","R","I","G"," ","H","O","L","D">>,
                    <<"N","P","L","C"," ","1">>,
                    <<"T","R","I","G"," ","S","G","L">> >>
           /\ line \in MeasLines
           /\ (last.op = "read_single_value") =>
                 float(line) = [ok |-> TRUE, v |-> last.ret]

C14_Witness ==
    /\ run.prog = "scenario" /\ Finished /\ run.raised = ""
    /\ last.op = "read_single_value" /\ last.ret = PyFloat(FALSE, <<1>>, 0 - 3)
    /\ Len(IoEvents(run.log)) = 7

\* C15: every run of the demonstration, whichever step fails and with
\* whichever error, comes to an end in which disconnect was the last call made
\* and is_connected is false.
C15_DemoAlwaysDisconnects ==
    (run.prog = "demo") ~>
        (/\ Finished
         /\ run.called # <<>>
         /\ run.called[Len(run.called)] = "disconnect"
         /\ ~is_connected)

=============================================================================
